---------------------------- MODULE Spec2Model ----------------------------
(***************************************************************************)
(* Calendar / Julian-Day conversions and the date-time rollover normalizer *)
(* of src/core/StelUtils.cpp, as a state machine.                         *)
(*                                                                         *)
(* Numbers.  C++ `int`/`long` values are modelled by integers; `/` and `%` *)
(* of the source truncate toward zero and are modelled by TruncDiv and     *)
(* TruncMod.  A `double` Julian Day is modelled in fixed point as a record *)
(* [int |-> floor(jd), frac |-> jd - floor(jd) in ticks], where one second *)
(* is TicksPerSecond ticks (one tick = 50 microseconds).  For |jd| < 2^22  *)
(* (years up to about 6700) a double carries the JD with an error below    *)
(* half an ulp = 2^-32 day = 20 microseconds, so the rounding error of the *)
(* sum computed by getJDFromDate is less than one tick; it is modelled as  *)
(* a nondeterministic error of at most one tick, and as no error when      *)
(* every term of the sum is exactly representable.                        *)
(*                                                                         *)
(* QDate is the Qt 4 class the source is written against (Julian calendar  *)
(* before 1582-10-15, no year 0, first valid date 4713-01-02 BCE: see the  *)
(* source's `y <= 0 ? y-1 : y` and its remarks on QDate's limits).         *)
(***************************************************************************)
EXTENDS Integers, Sequences, FiniteSets, TLC

VARIABLES
    pc,       \* position of the caller: which function has been applied
    arg,      \* arguments of the call: [y, m, d, h, min, s]
    ndays,    \* value returned by numberOfDaysInMonthInYear
    jd,       \* the double Julian Day: [int, frac], or NoValue
    date,     \* *yy, *mm, *dd written by getDateFromJulianDay, or NoValue
    time,     \* *hour, *minute, *second of getTimeFromJulianDay, or NoValue
    oy, om, od, oh, omin, os,   \* changeDateTimeForRollover: its parameters
    change,   \* changeDateTimeForRollover: local `change`
    ret       \* *ry, *rm, *rd, *rh, *rmin, *rs, or NoValue while unwritten

vars == <<pc, arg, ndays, jd, date, time, oy, om, od, oh, omin, os, change, ret>>

NoValue == [none |-> TRUE]

-----------------------------------------------------------------------------
(* C++ integer division and remainder: truncation toward zero (b > 0).     *)
TruncDiv(a, b) == IF a >= 0 THEN a \div b ELSE -((-a) \div b)

TruncMod(a, b) == a - b * TruncDiv(a, b)

-----------------------------------------------------------------------------
(* numberOfDaysInMonthInYear, case 2 with the century rule applied to      *)
(* every year: the cutover test `year > 1582` forgotten.                  *)
FebruaryDays_NoCutover(year) ==
    IF TruncMod(year, 4) = 0
    THEN IF TruncMod(year, 100) = 0
         THEN IF TruncMod(year, 400) = 0 THEN 29 ELSE 28
         ELSE 29
    ELSE 28

(* numberOfDaysInMonthInYear, case 2.                                      *)
FebruaryDays(year) ==
    IF year > 1582
    THEN IF TruncMod(year, 4) = 0
         THEN IF TruncMod(year, 100) = 0
              THEN IF TruncMod(year, 400) = 0 THEN 29 ELSE 28
              ELSE 29
         ELSE 28
    ELSE IF TruncMod(year, 4) = 0 THEN 29 ELSE 28

(* numberOfDaysInMonthInYear, cases 0 and 13 wrapped one month too far:    *)
(* November of the previous year and February of the next.                 *)
WrappedMonth_OffByOne(month, year) ==
    IF month = 0 THEN <<11, year - 1>> ELSE <<2, year + 1>>

(* numberOfDaysInMonthInYear, cases 0 and 13: the <<month, year>> of the   *)
(* recursive call.                                                         *)
WrappedMonth(month, year) ==
    IF month = 0 THEN <<12, year - 1>> ELSE <<1, year + 1>>

RECURSIVE numberOfDaysInMonthInYear(_, _)
numberOfDaysInMonthInYear(month, year) ==
    CASE month \in {1, 3, 5, 7, 8, 10, 12} -> 31
      [] month \in {4, 6, 9, 11} -> 30
      [] month = 2 -> FebruaryDays(year)
      [] month \in {0, 13} ->
             numberOfDaysInMonthInYear(WrappedMonth(month, year)[1],
                                       WrappedMonth(month, year)[2])
      [] OTHER -> 0

-----------------------------------------------------------------------------
(* Fixed-point image of a double Julian Day.                               *)
TicksPerSecond == 20000
TicksPerDay == 86400 * TicksPerSecond
HalfDayTicks == TicksPerDay \div 2

(* The double n + ticks/TicksPerDay, as [int |-> floor, frac |-> rest].    *)
JDValue(n, ticks) ==
    [int |-> n + (ticks \div TicksPerDay), frac |-> ticks % TicksPerDay]

(* Largest rounding error, in ticks, of the double sum `qdjd += deltaTime` *)
(* (and `jd += deltaTime`) for |jd| < 2^22.                                *)
RoundingTicks == 1

(* h/24.0, min/(24.0*60.0) and s/(24.0*60.0*60.0) are all exact binary     *)
(* fractions (then so is their sum with the day number).                   *)
ExactTime(h, min, s) == h % 3 = 0 /\ min % 45 = 0 /\ s % 675 = 0

RoundingErrors(h, min, s) ==
    IF ExactTime(h, min, s) THEN {0} ELSE -RoundingTicks..RoundingTicks

-----------------------------------------------------------------------------
(* QDate of Qt 4: QDate::isLeapYear.                                       *)
QDate_isLeapYear(y) ==
    IF y < 1582
    THEN TruncMod(IF y < 1 THEN y + 1 ELSE y, 4) = 0
    ELSE (TruncMod(y, 4) = 0 /\ TruncMod(y, 100) # 0) \/ TruncMod(y, 400) = 0

QDate_monthDays(m) ==
    CASE m \in {1, 3, 5, 7, 8, 10, 12} -> 31
      [] m \in {4, 6, 9, 11} -> 30
      [] m = 2 -> 28
      [] OTHER -> 0

(* QDate of Qt 4: QDate::isValid(year, month, day).                        *)
QDate_isValid(year, month, day) ==
    /\ ~(\/ year < -4713
         \/ year = -4713 /\ (month < 1 \/ (month = 1 /\ day < 2))
         \/ year = 0)
    /\ ~(year = 1582 /\ month = 10 /\ day > 4 /\ day < 15)
    /\ day > 0 /\ month > 0 /\ month <= 12
    /\ \/ day <= QDate_monthDays(month)
       \/ day = 29 /\ month = 2 /\ QDate_isLeapYear(year)

(* QDate of Qt 4: julianDayFromGregorianDate (Fliegel and Van Flandern).   *)
QDate_julianDayFromGregorianDate(year, month, day) ==
    LET c == TruncDiv(month - 14, 12)
    IN  TruncDiv(1461 * (year + 4800 + c), 4)
        + TruncDiv(367 * (month - 2 - 12 * c), 12)
        - TruncDiv(3 * TruncDiv(year + 4900 + c, 100), 4)
        + day - 32075

(* QDate of Qt 4: julianDayFromDate, the value of toJulianDay() of a valid *)
(* date: Gregorian from 1582-10-15, Julian up to 1582-10-04.               *)
QDate_toJulianDay(qyear, month, day) ==
    LET year == IF qyear < 0 THEN qyear + 1 ELSE qyear
    IN  IF year > 1582
           \/ (year = 1582 /\ (month > 10 \/ (month = 10 /\ day >= 15)))
        THEN QDate_julianDayFromGregorianDate(year, month, day)
        ELSE IF year < 1582
                \/ (year = 1582 /\ (month < 10 \/ (month = 10 /\ day <= 4)))
        THEN LET a == TruncDiv(14 - month, 12)
             IN  TruncDiv(153 * (month + 12 * a - 3) + 2, 5)
                 + TruncDiv(1461 * (year + 4800 - a), 4)
                 + day - 32083
        ELSE 0

-----------------------------------------------------------------------------
(* getJDFromDate: static const long IGREG2.                                *)
IGREG2 == 15 + 31 * (10 + 12 * 1582)

(* getJDFromDate: `laa`, with the floor correction for negative jy left    *)
(* out.                                                                    *)
Laa_NoFloorFix(jy) == TruncDiv(1461 * jy, 4)

(* getJDFromDate: `laa = 1461 * jy / 4; if (jy < 0 && jy % 4) --laa`.      *)
Laa(jy) ==
    IF jy < 0 /\ TruncMod(jy, 4) # 0
    THEN TruncDiv(1461 * jy, 4) - 1
    ELSE TruncDiv(1461 * jy, 4)

(* getJDFromDate, else branch: the Numerical Recipes day number `ljul`.    *)
NumericalRecipesDay(y, m, d) ==
    LET jy == IF m > 2 THEN y ELSE y - 1
        jm == IF m > 2 THEN m + 1 ELSE m + 13
        lbb == TruncDiv(306001 * jm, 10000)
        ljul == Laa(jy) + lbb + d + 1720995
        lcc0 == TruncDiv(jy, 100)
        lcc == IF jy < 0 /\ TruncMod(jy, 100) # 0 THEN lcc0 - 1 ELSE lcc0
        lee0 == TruncDiv(lcc, 4)
        lee == IF lcc < 0 /\ TruncMod(lcc, 4) # 0 THEN lee0 - 1 ELSE lee0
    IN  IF d + 31 * (m + 12 * y) >= IGREG2
        THEN ljul + 2 - lcc + lee
        ELSE ljul

(* getJDFromDate: the year handed to QDate, which has no year 0.           *)
QDateYear(y) == IF y <= 0 THEN y - 1 ELSE y

(* getJDFromDate: the day number, from QDate when QDate obliges.           *)
DayNumber(y, m, d) ==
    IF QDate_isValid(QDateYear(y), m, d)
    THEN QDate_toJulianDay(QDateYear(y), m, d)
    ELSE NumericalRecipesDay(y, m, d)

(* getJDFromDate: `deltaTime`, in ticks.                                   *)
DeltaTime(h, min, s) == (h * 3600 + min * 60 + s) * TicksPerSecond - HalfDayTicks

(* getJDFromDate: *newjd, the sum being rounded by err ticks.              *)
getJDFromDate(y, m, d, h, min, s, err) ==
    JDValue(DayNumber(y, m, d), DeltaTime(h, min, s) + err)

-----------------------------------------------------------------------------
JD_GREG_CAL == 2299161
JB_MAX_WITHOUT_OVERFLOW == 107374182

(* getDateFromJulianDay: `julian = (long)floor(jd + 0.5)`.                 *)
JulianOf(jdv) == jdv.int + (IF jdv.frac >= HalfDayTicks THEN 1 ELSE 0)

(* getDateFromJulianDay: `ta`, the cutover tested with > instead of >=.    *)
Ta_LateCutover(julian) ==
    IF julian > JD_GREG_CAL
    THEN LET jalpha == TruncDiv(4 * (julian - 1867216) - 1, 146097)
         IN  julian + 1 + jalpha - TruncDiv(jalpha, 4)
    ELSE IF julian < 0
    THEN julian + 36525 * (1 - TruncDiv(julian, 36525))
    ELSE julian

(* getDateFromJulianDay: `ta`, the Gregorian branch without the leap       *)
(* centuries (`- jalpha / 4` forgotten).                                   *)
Ta_NoLeapCentury(julian) ==
    IF julian >= JD_GREG_CAL
    THEN LET jalpha == TruncDiv(4 * (julian - 1867216) - 1, 146097)
         IN  julian + 1 + jalpha
    ELSE IF julian < 0
    THEN julian + 36525 * (1 - TruncDiv(julian, 36525))
    ELSE julian

(* getDateFromJulianDay: `ta`, the Gregorian, negative and plain branches. *)
Ta(julian) ==
    IF julian >= JD_GREG_CAL
    THEN LET jalpha == TruncDiv(4 * (julian - 1867216) - 1, 146097)
         IN  julian + 1 + jalpha - TruncDiv(jalpha, 4)
    ELSE IF julian < 0
    THEN julian + 36525 * (1 - TruncDiv(julian, 36525))
    ELSE julian

(* getDateFromJulianDay: `tc`; the second branch computes the same         *)
(* quotient in unsigned 64-bit arithmetic.                                 *)
Tc(tb) ==
    IF tb <= JB_MAX_WITHOUT_OVERFLOW
    THEN TruncDiv(tb * 20 - 2442, 7305)
    ELSE TruncDiv(tb * 20 - 2442, 7305)

(* getDateFromJulianDay: `*mm`, without the wrap of months 13 and 14.      *)
MonthOf_NoWrap(te) == te - 1

(* getDateFromJulianDay: `mm = te - 1; if (mm > 12) mm -= 12`.             *)
MonthOf(te) == IF te - 1 > 12 THEN te - 1 - 12 ELSE te - 1

(* getDateFromJulianDay: `*yy`.                                            *)
YearOf(tc, mm, julian) ==
    tc - 4715 - (IF mm > 2 THEN 1 ELSE 0)
       - (IF julian < 0 THEN 100 * (1 - TruncDiv(julian, 36525)) ELSE 0)

(* getDateFromJulianDay: <<*yy, *mm, *dd>>.                                *)
getDateFromJulianDay(jdv) ==
    LET julian == JulianOf(jdv)
        tb == Ta(julian) + 1524
        tc == Tc(tb)
        td == 365 * tc + TruncDiv(tc, 4)
        te == TruncDiv((tb - td) * 10000, 306001)
        dd == tb - td - TruncDiv(306001 * te, 10000)
        mm == MonthOf(te)
    IN  <<YearOf(tc, mm, julian), mm, dd>>

(* getTimeFromJulianDay: the hour, without the shift from the noon-based   *)
(* JD fraction to civil time.                                              *)
HourOf_NoonBased(s) == TruncMod(TruncDiv(s, 60 * 60), 24)

(* getTimeFromJulianDay: `*hour = ((s / (60 * 60)) + 12) % 24`.            *)
HourOf(s) == TruncMod(TruncDiv(s, 60 * 60) + 12, 24)

(* getTimeFromJulianDay: <<*hour, *minute, *second>>; the constant 0.0001  *)
(* second is TicksPerSecond / 10000 ticks.                                 *)
getTimeFromJulianDay(jdv) ==
    LET s == (jdv.frac + TicksPerSecond \div 10000) \div TicksPerSecond
    IN  <<HourOf(s), TruncMod(TruncDiv(s, 60), 60), TruncMod(s, 60)>>

-----------------------------------------------------------------------------
(* Inputs of the numberOfDaysInMonthInYear checks.                         *)
DimSpan == 420
DimYears == ((1582 - DimSpan)..(1582 + DimSpan)) \cup ((-DimSpan \div 10)..(DimSpan \div 10))
DimMonths == -1..14

NoArg == [y |-> 0, m |-> 0, d |-> 0, h |-> 0, min |-> 0, s |-> 0]

RollIdle ==
    /\ oy = 0 /\ om = 0 /\ od = 0 /\ oh = 0 /\ omin = 0 /\ os = 0
    /\ change = FALSE /\ ret = NoValue

InitDays ==
    /\ pc = "call"
    /\ \E yr \in DimYears, mo \in DimMonths :
           arg = [y |-> yr, m |-> mo, d |-> 1, h |-> 0, min |-> 0, s |-> 0]
    /\ ndays = 0
    /\ jd = NoValue /\ date = NoValue /\ time = NoValue
    /\ RollIdle

CallNumberOfDays ==
    /\ pc = "call"
    /\ ndays' = numberOfDaysInMonthInYear(arg.m, arg.y)
    /\ pc' = "ndim"
    /\ UNCHANGED <<arg, jd, date, time, oy, om, od, oh, omin, os, change, ret>>

NextDays == CallNumberOfDays

SpecDays == InitDays /\ [][NextDays]_vars

-----------------------------------------------------------------------------
Divides(k, n) == n % k = 0

(* C10: numberOfDaysInMonthInYear(2, year) is 29 exactly when              *)
(* (year > 1582, year divisible by 4 and (not by 100, or by 400)) or       *)
(* (year <= 1582 and year divisible by 4), else 28; so (2,2000) = 29,      *)
(* (2,1900) = 28, (2,1600) = 29 and (2,1500) = 29; months 4, 6, 9, 11 give *)
(* 30 and months 1, 3, 5, 7, 8, 10, 12 give 31 in every year.              *)
C10_DaysInMonth ==
    pc = "ndim" =>
        LET yr == arg.y
            leap == \/ yr > 1582 /\ Divides(4, yr)
                                 /\ (~Divides(100, yr) \/ Divides(400, yr))
                    \/ yr <= 1582 /\ Divides(4, yr)
        IN  /\ arg.m = 2 => ndays = (IF leap THEN 29 ELSE 28)
            /\ arg.m \in {4, 6, 9, 11} => ndays = 30
            /\ arg.m \in {1, 3, 5, 7, 8, 10, 12} => ndays = 31
            /\ (arg.m = 2 /\ yr \in {2000, 1600, 1500}) => ndays = 29
            /\ (arg.m = 2 /\ yr = 1900) => ndays = 28

(* A February where the Julian and the Gregorian rule differ has been      *)
(* evaluated: 1500 is a leap year under the Julian rule only.              *)
C10_Witness == pc = "ndim" /\ arg.m = 2 /\ arg.y = 1500 /\ ndays = 29

(* C11: numberOfDaysInMonthInYear(0, y) equals                             *)
(* numberOfDaysInMonthInYear(12, y - 1) and numberOfDaysInMonthInYear(13,  *)
(* y) equals numberOfDaysInMonthInYear(1, y + 1); both are 31 for every y, *)
(* and the recursion ends after one step: the month of the recursive call  *)
(* is one of 1..12, which returns without a further call.                  *)
C11_MonthZeroAndThirteen ==
    pc = "ndim" =>
        /\ arg.m = 0 =>
              /\ ndays = numberOfDaysInMonthInYear(12, arg.y - 1)
              /\ WrappedMonth(arg.m, arg.y) = <<12, arg.y - 1>>
        /\ arg.m = 13 =>
              /\ ndays = numberOfDaysInMonthInYear(1, arg.y + 1)
              /\ WrappedMonth(arg.m, arg.y) = <<1, arg.y + 1>>
        /\ arg.m \in {0, 13} =>
              /\ ndays = 31
              /\ WrappedMonth(arg.m, arg.y)[1] \in 1..12

(* Month 13 of 1582 has been evaluated as January 1583.                    *)
C11_Witness == pc = "ndim" /\ arg.m = 13 /\ arg.y = 1582 /\ ndays = 31

-----------------------------------------------------------------------------
(* Inputs of the calendar conversions: years around the first QDate date,  *)
(* year 0, the Gregorian reform and the century years, every month, every  *)
(* day number 1..31 (valid in the month or not), and times at both ends of *)
(* the civil day and around noon.                                          *)
YearWindow == 2
CalYearCentres == {-9999, -4713, -100, 0, 1582, 1600, 1900, 2000}
CalYears == UNION {(c - YearWindow)..(c + YearWindow) : c \in CalYearCentres}
CalDays == 1..31
CalTimes == {<<0, 0, 0>>, <<0, 0, 1>>, <<7, 30, 29>>, <<11, 59, 59>>,
             <<12, 0, 0>>, <<12, 0, 1>>, <<18, 45, 0>>, <<23, 59, 59>>}

(* Julian Days given directly: day numbers around three negative century   *)
(* multiples, 0, the start of year 1, the cutover and J2000, with the      *)
(* fractions .0, just below .5, .5 and just below 1.                       *)
JDWindow == 400
RawJDCentres == {-50 * 36525, -2 * 36525, -36525, 0, 1721424, JD_GREG_CAL, 2451545}
RawJDs == UNION {(c - JDWindow)..(c + JDWindow) : c \in RawJDCentres}
RawFracs == {0, HalfDayTicks - 1, HalfDayTicks, TicksPerDay - 1}

InitCal ==
    /\ \/ /\ pc = "civil"
          /\ \E yr \in CalYears, mo \in 1..12, dy \in CalDays, t \in CalTimes :
                 arg = [y |-> yr, m |-> mo, d |-> dy,
                        h |-> t[1], min |-> t[2], s |-> t[3]]
          /\ jd = NoValue
       \/ /\ pc = "jd"
          /\ arg = NoValue
          /\ \E n \in RawJDs, f \in RawFracs : jd = [int |-> n, frac |-> f]
    /\ ndays = 0 /\ date = NoValue /\ time = NoValue
    /\ RollIdle

CallGetJDFromDate ==
    /\ pc = "civil"
    /\ \E err \in RoundingErrors(arg.h, arg.min, arg.s) :
           jd' = getJDFromDate(arg.y, arg.m, arg.d, arg.h, arg.min, arg.s, err)
    /\ pc' = "jd"
    /\ UNCHANGED <<arg, ndays, date, time, oy, om, od, oh, omin, os, change, ret>>

CallGetDateFromJulianDay ==
    /\ pc = "jd"
    /\ date' = getDateFromJulianDay(jd)
    /\ pc' = "date"
    /\ UNCHANGED <<arg, ndays, jd, time, oy, om, od, oh, omin, os, change, ret>>

CallGetTimeFromJulianDay ==
    /\ pc = "date"
    /\ time' = getTimeFromJulianDay(jd)
    /\ pc' = "time"
    /\ UNCHANGED <<arg, ndays, jd, date, oy, om, od, oh, omin, os, change, ret>>

NextCal ==
    \/ CallGetJDFromDate
    \/ CallGetDateFromJulianDay
    \/ CallGetTimeFromJulianDay

SpecCal == InitCal /\ [][NextCal]_vars

-----------------------------------------------------------------------------
Decoded == pc \in {"date", "time"}
FromCivil == arg # NoValue

ValidTime(a) == a.h \in 0..23 /\ a.min \in 0..59 /\ a.s \in 0..59

InGap(yr, mo, dy) == yr = 1582 /\ mo = 10 /\ dy \in 5..14

(* A valid civil date: month 1..12, day within the month, not skipped.     *)
ValidDate(yr, mo, dy) ==
    /\ mo \in 1..12
    /\ dy >= 1 /\ dy <= numberOfDaysInMonthInYear(mo, yr)
    /\ ~InGap(yr, mo, dy)

(* C1: for every valid civil date-time with year > 1582,                   *)
(* getDateFromJulianDay applied to the JD produced by getJDFromDate        *)
(* returns exactly the same (year, month, day).                            *)
C1_DateRoundTrip ==
    (Decoded /\ FromCivil /\ arg.y > 1582
        /\ ValidDate(arg.y, arg.m, arg.d) /\ ValidTime(arg))
    => date = <<arg.y, arg.m, arg.d>>

(* The last second of a Gregorian leap day has gone through both           *)
(* conversions.                                                            *)
C1_Witness ==
    /\ Decoded /\ FromCivil
    /\ arg = [y |-> 2000, m |-> 2, d |-> 29, h |-> 23, min |-> 59, s |-> 59]
    /\ date = <<2000, 2, 29>>

(* The Gregorian and the Julian calendar's day number of year-month-day.   *)
GregorianDayNumber(yr, mo, dy) ==
    LET a == (14 - mo) \div 12
        yy == yr + 4800 - a
        mm == mo + 12 * a - 3
    IN  dy + (153 * mm + 2) \div 5 + 365 * yy + yy \div 4 - yy \div 100
           + yy \div 400 - 32045

JulianDayNumber(yr, mo, dy) ==
    LET a == (14 - mo) \div 12
        yy == yr + 4800 - a
        mm == mo + 12 * a - 3
    IN  dy + (153 * mm + 2) \div 5 + 365 * yy + yy \div 4 - 32083

(* C2: getJDFromDate(1582,10,15,12,0,0) = 2299161 and                      *)
(* getJDFromDate(1582,10,4,12,0,0) = 2299160; getDateFromJulianDay of day  *)
(* number 2299161 is (1582,10,15) and of 2299160 is (1582,10,4); every JD  *)
(* from 2299161 on is decoded as a date of the Gregorian calendar and      *)
(* every JD below it as a date of the Julian calendar.                     *)
C2_Cutover ==
    /\ (pc # "civil" /\ FromCivil /\ arg.y = 1582 /\ arg.m = 10
          /\ arg.h = 12 /\ arg.min = 0 /\ arg.s = 0)
       => /\ arg.d = 15 => jd = [int |-> 2299161, frac |-> 0]
          /\ arg.d = 4 => jd = [int |-> 2299160, frac |-> 0]
    /\ Decoded =>
          /\ JulianOf(jd) = 2299161 => date = <<1582, 10, 15>>
          /\ JulianOf(jd) = 2299160 => date = <<1582, 10, 4>>
          /\ JulianOf(jd) >= 2299161 =>
                GregorianDayNumber(date[1], date[2], date[3]) = JulianOf(jd)
          /\ JulianOf(jd) < 2299161 =>
                JulianDayNumber(date[1], date[2], date[3]) = JulianOf(jd)

(* Noon of 1582-10-15 has been encoded as JD 2299161.0 and decoded.        *)
C2_Witness ==
    /\ Decoded /\ FromCivil
    /\ arg = [y |-> 1582, m |-> 10, d |-> 15, h |-> 12, min |-> 0, s |-> 0]
    /\ jd = [int |-> 2299161, frac |-> 0]
    /\ date = <<1582, 10, 15>>

(* C7: for every valid date with year <= 0 (astronomical numbering: year 0 *)
(* exists and directly precedes year 1, the day number of 0000-12-31 plus  *)
(* one being the day number of 0001-01-01), getDateFromJulianDay of the JD *)
(* built by getJDFromDate returns the same (year, month, day).             *)
C7_NegativeYearRoundTrip ==
    /\ (Decoded /\ FromCivil /\ arg.y <= 0
          /\ ValidDate(arg.y, arg.m, arg.d) /\ ValidTime(arg))
       => date = <<arg.y, arg.m, arg.d>>
    /\ (pc # "civil" /\ FromCivil /\ arg.h = 12 /\ arg.min = 0 /\ arg.s = 0)
       => /\ (arg.y = 0 /\ arg.m = 12 /\ arg.d = 31) =>
                 jd = [int |-> DayNumber(1, 1, 1) - 1, frac |-> 0]
          /\ (arg.y = 1 /\ arg.m = 1 /\ arg.d = 1) =>
                 jd = [int |-> DayNumber(0, 12, 31) + 1, frac |-> 0]

(* A date before the first date QDate accepts, with a negative day number, *)
(* has gone through both conversions.                                      *)
C7_Witness ==
    /\ Decoded /\ FromCivil
    /\ arg.y = -4714 /\ arg.m = 2 /\ arg.d = 28
    /\ JulianOf(jd) < 0
    /\ date = <<-4714, 2, 28>>

SecondOfDay(hh, mi, ss) == hh * 3600 + mi * 60 + ss

(* Distance of two seconds of the day, around the clock.                   *)
ClockDistance(a, b) ==
    LET diff == IF a >= b THEN a - b ELSE b - a
    IN  IF diff <= 43200 THEN diff ELSE 86400 - diff

(* C8: for every valid date-time, getTimeFromJulianDay of the JD built by  *)
(* getJDFromDate recovers hour, minute and second to within one second; a  *)
(* JD fraction of .0 decodes to 12:00:00 and .5 to 00:00:00; the hour      *)
(* returned is always in 0..23, the minute and the second in 0..59.        *)
C8_TimeRoundTrip ==
    pc = "time" =>
        /\ (FromCivil /\ ValidDate(arg.y, arg.m, arg.d) /\ ValidTime(arg)) =>
              ClockDistance(SecondOfDay(time[1], time[2], time[3]),
                            SecondOfDay(arg.h, arg.min, arg.s)) <= 1
        /\ jd.frac = 0 => time = <<12, 0, 0>>
        /\ jd.frac = HalfDayTicks => time = <<0, 0, 0>>
        /\ time[1] \in 0..23 /\ time[2] \in 0..59 /\ time[3] \in 0..59

(* 23:59:59, whose JD is not exactly representable, has been stored with   *)
(* a rounding error downwards and decoded.                                 *)
C8_Witness ==
    /\ pc = "time" /\ FromCivil
    /\ arg.y = 2000 /\ arg.h = 23 /\ arg.min = 59 /\ arg.s = 59
    /\ jd.frac = HalfDayTicks - TicksPerSecond - 1
    /\ time = <<23, 59, 59>>

(* C9: for every Julian Day, getDateFromJulianDay returns a normalized     *)
(* date: month in 1..12, 1 <= day <= numberOfDaysInMonthInYear(month,      *)
(* year), and never one of 1582-10-05 .. 1582-10-14.                       *)
C9_DecodedDateNormalized ==
    Decoded => ValidDate(date[1], date[2], date[3])

(* A negative Julian Day given directly has been decoded to a 29th of      *)
(* February.                                                               *)
C9_Witness ==
    /\ Decoded /\ ~FromCivil
    /\ jd.int < 0
    /\ date[2] = 2 /\ date[3] = 29

-----------------------------------------------------------------------------
(* changeDateTimeForRollover.  pc names the loop (or statement) the        *)
(* function is at; every iteration of a loop is one step.                  *)
LoopLocs == {"secHi", "secLo", "minHi", "minLo", "hourHi", "hourLo",
             "dayHi", "dayLo", "monthHi", "monthLo"}

(* The statement that follows a loop.                                      *)
AfterLoop(loc) ==
    CASE loc = "secHi" -> "secLo"
      [] loc = "secLo" -> "minHi"
      [] loc = "minHi" -> "minLo"
      [] loc = "minLo" -> "hourHi"
      [] loc = "hourHi" -> "hourLo"
      [] loc = "hourLo" -> "dayHi"
      [] loc = "dayHi" -> "dayLo"
      [] loc = "dayLo" -> "monthHi"
      [] loc = "monthHi" -> "monthLo"
      [] loc = "monthLo" -> "gap"

(* The condition of the while loop at loc.                                 *)
LoopCond(loc) ==
    CASE loc = "secHi" -> os > 59
      [] loc = "secLo" -> os < 0
      [] loc = "minHi" -> omin > 59
      [] loc = "minLo" -> omin < 0
      [] loc = "hourHi" -> oh > 23
      [] loc = "hourLo" -> oh < 0
      [] loc = "dayHi" -> od > numberOfDaysInMonthInYear(om, oy)
      [] loc = "dayLo" -> od < 1
      [] loc = "monthHi" -> om > 12
      [] loc = "monthLo" -> om < 1

(* `od += numberOfDaysInMonthInYear(om, oy)`: the length of the month left *)
(* instead of the month entered.                                           *)
DaysBorrowed_SameMonth(month, year) == numberOfDaysInMonthInYear(month, year)

(* `od += numberOfDaysInMonthInYear(om-1, oy)`.                            *)
DaysBorrowed(month, year) == numberOfDaysInMonthInYear(month - 1, year)

(* The reform-gap test with a zero-based month.                            *)
InReformGap_ZeroBasedMonth(year, month, day) ==
    year = 1582 /\ month = 9 /\ (day > 4 /\ day < 15)

(* The reform-gap test with both ends included.                            *)
InReformGap_Inclusive(year, month, day) ==
    year = 1582 /\ month = 10 /\ (day >= 4 /\ day <= 15)

(* `oy == 1582 && om == 10 && ( od > 4 && od < 15 )`.                      *)
InReformGap(year, month, day) ==
    year = 1582 /\ month = 10 /\ (day > 4 /\ day < 15)

(* Inputs of the normalizer: in-range, overflowing and negative times,     *)
(* every day from DayOver below 0 to DayOver above 31, every month from    *)
(* MonthOver below 0 to MonthOver above 13.                                *)
TimeOver == 61
DayOver == 35
MonthOver == 14
RollYears == {1581, 1582, 1900, 2024}
RollTimes == {<<0, 0, 0>>, <<23, 59, 59>>, <<25, 61, 61>>, <<-1, -1, -1>>,
              <<23, 59, 60 + TimeOver>>, <<-24 - TimeOver, -TimeOver, -TimeOver>>}
RollDays == (-DayOver)..(31 + DayOver)
RollMonths == (-MonthOver)..(13 + MonthOver)

InitRoll ==
    /\ pc = "secHi"
    /\ \E yr \in RollYears, mo \in RollMonths, dy \in RollDays, t \in RollTimes :
           arg = [y |-> yr, m |-> mo, d |-> dy,
                  h |-> t[1], min |-> t[2], s |-> t[3]]
    /\ oy = arg.y /\ om = arg.m /\ od = arg.d
    /\ oh = arg.h /\ omin = arg.min /\ os = arg.s
    /\ change = FALSE
    /\ ret = NoValue
    /\ ndays = 0 /\ jd = NoValue /\ date = NoValue /\ time = NoValue

SecondsCarry ==
    /\ pc = "secHi" /\ os > 59
    /\ os' = os - 60 /\ omin' = omin + 1 /\ change' = TRUE
    /\ UNCHANGED <<pc, arg, ndays, jd, date, time, oy, om, od, oh, ret>>

SecondsBorrow ==
    /\ pc = "secLo" /\ os < 0
    /\ os' = os + 60 /\ omin' = omin - 1 /\ change' = TRUE
    /\ UNCHANGED <<pc, arg, ndays, jd, date, time, oy, om, od, oh, ret>>

MinutesCarry ==
    /\ pc = "minHi" /\ omin > 59
    /\ omin' = omin - 60 /\ oh' = oh + 1 /\ change' = TRUE
    /\ UNCHANGED <<pc, arg, ndays, jd, date, time, oy, om, od, os, ret>>

MinutesBorrow ==
    /\ pc = "minLo" /\ omin < 0
    /\ omin' = omin + 60 /\ oh' = oh - 1 /\ change' = TRUE
    /\ UNCHANGED <<pc, arg, ndays, jd, date, time, oy, om, od, os, ret>>

HoursCarry ==
    /\ pc = "hourHi" /\ oh > 23
    /\ oh' = oh - 24 /\ od' = od + 1 /\ change' = TRUE
    /\ UNCHANGED <<pc, arg, ndays, jd, date, time, oy, om, omin, os, ret>>

HoursBorrow ==
    /\ pc = "hourLo" /\ oh < 0
    /\ oh' = oh + 24 /\ od' = od - 1 /\ change' = TRUE
    /\ UNCHANGED <<pc, arg, ndays, jd, date, time, oy, om, omin, os, ret>>

DaysCarry ==
    /\ pc = "dayHi" /\ od > numberOfDaysInMonthInYear(om, oy)
    /\ od' = od - numberOfDaysInMonthInYear(om, oy)
    /\ IF om + 1 > 12
       THEN om' = om + 1 - 12 /\ oy' = oy + 1
       ELSE om' = om + 1 /\ oy' = oy
    /\ change' = TRUE
    /\ UNCHANGED <<pc, arg, ndays, jd, date, time, oh, omin, os, ret>>

DaysBorrow ==
    /\ pc = "dayLo" /\ od < 1
    /\ od' = od + DaysBorrowed(om, oy)
    /\ IF om - 1 < 1
       THEN om' = om - 1 + 12 /\ oy' = oy - 1
       ELSE om' = om - 1 /\ oy' = oy
    /\ change' = TRUE
    /\ UNCHANGED <<pc, arg, ndays, jd, date, time, oh, omin, os, ret>>

MonthsCarry ==
    /\ pc = "monthHi" /\ om > 12
    /\ om' = om - 12 /\ oy' = oy + 1 /\ change' = TRUE
    /\ UNCHANGED <<pc, arg, ndays, jd, date, time, od, oh, omin, os, ret>>

MonthsBorrow ==
    /\ pc = "monthLo" /\ om < 1
    /\ om' = om + 12 /\ oy' = oy - 1 /\ change' = TRUE
    /\ UNCHANGED <<pc, arg, ndays, jd, date, time, od, oh, omin, os, ret>>

(* The condition of the loop at pc is false: go on to the next statement.  *)
LoopExit ==
    /\ pc \in LoopLocs /\ ~LoopCond(pc)
    /\ pc' = AfterLoop(pc)
    /\ UNCHANGED <<arg, ndays, jd, date, time, oy, om, od, oh, omin, os, change, ret>>

(* The julian-gregorian epoch hole: round up to the 15th.                  *)
GapRule ==
    /\ pc = "gap"
    /\ IF InReformGap(oy, om, od)
       THEN od' = 15 /\ change' = TRUE
       ELSE od' = od /\ change' = change
    /\ pc' = "return"
    /\ UNCHANGED <<arg, ndays, jd, date, time, oy, om, oh, omin, os, ret>>

(* `if ( change ) { *ry = oy; ... }  return change;`                       *)
Return ==
    /\ pc = "return"
    /\ ret' = IF change
              THEN [y |-> oy, m |-> om, d |-> od, h |-> oh, min |-> omin, s |-> os]
              ELSE ret
    /\ pc' = "done"
    /\ UNCHANGED <<arg, ndays, jd, date, time, oy, om, od, oh, omin, os, change>>

NextRoll ==
    \/ SecondsCarry \/ SecondsBorrow
    \/ MinutesCarry \/ MinutesBorrow
    \/ HoursCarry \/ HoursBorrow
    \/ DaysCarry \/ DaysBorrow
    \/ MonthsCarry \/ MonthsBorrow
    \/ LoopExit
    \/ GapRule
    \/ Return

SpecRoll == InitRoll /\ [][NextRoll]_vars

(* The function runs to its return: no step is ever left untaken.          *)
FairSpecRoll == SpecRoll /\ WF_vars(NextRoll)

-----------------------------------------------------------------------------
(* A valid date-time: second and minute in 0..59, hour in 0..23, month in  *)
(* 1..12, day within the month and not one of the skipped days.            *)
ValidDateTime(a) == ValidTime(a) /\ ValidDate(a.y, a.m, a.d)

RollExample == [y |-> 2024, m |-> 13, d |-> 32, h |-> 25, min |-> 61, s |-> 61]

(* C3: whenever changeDateTimeForRollover returns true, whatever the input *)
(* tuple, the tuple returned is a valid date-time; (2024,13,32,25,61,61)   *)
(* yields changed = true and a valid date-time.                            *)
C3_ReturnedTupleValid ==
    pc = "done" =>
        /\ change => (ret # NoValue /\ ValidDateTime(ret))
        /\ arg = RollExample => (change /\ ret # NoValue /\ ValidDateTime(ret))

(* The example has been normalized: every unit carried once.               *)
C3_Witness ==
    /\ pc = "done" /\ arg = RollExample /\ change
    /\ ret = [y |-> 2025, m |-> 2, d |-> 2, h |-> 2, min |-> 2, s |-> 1]

(* C4: changeDateTimeForRollover returns false if and only if the input    *)
(* tuple is already a valid date-time.                                     *)
C4_FalseIffValid ==
    pc = "done" => ((change = FALSE) <=> ValidDateTime(arg))

(* A valid input has been returned unadjusted, nothing being written.      *)
C4_Witness ==
    /\ pc = "done" /\ ~change /\ ret = NoValue
    /\ arg = [y |-> 2024, m |-> 2, d |-> 29, h |-> 23, min |-> 59, s |-> 59]

(* How far x lies outside lo..hi.                                          *)
Excess(x, lo, hi) == IF x > hi THEN x - hi ELSE IF x < lo THEN lo - x ELSE 0

(* The magnitude by which the component corrected by the loop at loc is    *)
(* out of its range; the range of the day is that of the current month.    *)
Magnitude(loc, yr, mo, dy, hr, mi, sc) ==
    CASE loc \in {"secHi", "secLo"} -> Excess(sc, 0, 59)
      [] loc \in {"minHi", "minLo"} -> Excess(mi, 0, 59)
      [] loc \in {"hourHi", "hourLo"} -> Excess(hr, 0, 23)
      [] loc \in {"dayHi", "dayLo"} ->
             Excess(dy, 1, numberOfDaysInMonthInYear(mo, yr))
      [] loc \in {"monthHi", "monthLo"} -> Excess(mo, 1, 12)

Iteration == pc \in LoopLocs /\ pc' = pc

C5_Terminates == <>(pc = "done")

C5_EveryIterationReduces ==
    [][Iteration => Magnitude(pc, oy', om', od', oh', omin', os')
                      < Magnitude(pc, oy, om, od, oh, omin, os)]_vars

(* C5: changeDateTimeForRollover terminates for every input tuple (months  *)
(* outside 0..13, negative and overflowing days included), and every       *)
(* iteration of each correction loop strictly reduces the magnitude of the *)
(* out-of-range component it is correcting.                                *)
C5_TerminatesReducing == C5_Terminates /\ C5_EveryIterationReduces

(* The same, for the loops of the seconds, minutes, hours and months, and  *)
(* for the day loops while the month whose length is used is one of 0..13. *)
C5_IterationReducesInRangeMonth ==
    [][(/\ Iteration
        /\ pc = "dayHi" => om \in 0..13
        /\ pc = "dayLo" => om - 1 \in 0..13)
         => Magnitude(pc, oy', om', od', oh', omin', os')
              < Magnitude(pc, oy, om, od, oh, omin, os)]_vars

(* C6: whenever the date reached after all carries has year 1582, month 10 *)
(* and a day strictly between 4 and 15, changeDateTimeForRollover returns  *)
(* true with day 15 and the other fields as carried; any other date,       *)
(* 1582-10-04 and 1582-10-15 included, is left as it is by this rule;      *)
(* (1582,10,10,0,0,0) returns true with (1582,10,15,0,0,0).                *)
C6_GapRule ==
    /\ [][pc = "gap" =>
            /\ IF oy = 1582 /\ om = 10 /\ od \in 5..14
               THEN od' = 15 /\ change' = TRUE
               ELSE od' = od /\ change' = change
            /\ <<oy', om', oh', omin', os'>> = <<oy, om, oh, omin, os>>]_vars
    /\ [](pc = "done" =>
            /\ change =>
                 ret = [y |-> oy, m |-> om, d |-> od, h |-> oh, min |-> omin, s |-> os]
            /\ arg = [y |-> 1582, m |-> 10, d |-> 10, h |-> 0, min |-> 0, s |-> 0]
                 => /\ change
                    /\ ret = [y |-> 1582, m |-> 10, d |-> 15,
                              h |-> 0, min |-> 0, s |-> 0])

(* Day 40 of September 1582 has been carried to October 10 and snapped to  *)
(* the 15th.                                                               *)
C6_Witness ==
    /\ pc = "done" /\ change
    /\ arg = [y |-> 1582, m |-> 9, d |-> 40, h |-> 0, min |-> 0, s |-> 0]
    /\ ret = [y |-> 1582, m |-> 10, d |-> 15, h |-> 0, min |-> 0, s |-> 0]

-----------------------------------------------------------------------------
(* Delta-T.  A `double` Delta-T value is modelled by the expression that   *)
(* computes it: Poly(coeffs, num, den) is the polynomial                   *)
(*     coeffs[1] + coeffs[2] * x + coeffs[3] * x^2 + ...   at x = num/den, *)
(* every coefficient <<m, e, d>> being the source literal m / 10^e / d     *)
(* (63.86 is <<6386, 2, 1>>, pow(t,3) / 7129 has <<1, 0, 7129>>).          *)
Poly(coeffs, num, den) == [coeffs |-> coeffs, num |-> num, den |-> den]

(* The double 0. (and any other literal assigned as it stands).            *)
Literal(m, e) == Poly(<< <<m, e, 1>> >>, 0, 1)

(* The decimal year `year+((month-1)*30.5+day/31*30.5)/366`, in twelfths   *)
(* of a year: 30.5/366 is 1/12 and `day/31` is an integer division.        *)
DecimalYear12(d) == 12 * d[1] + (d[2] - 1) + TruncDiv(d[3], 31)

(* decYear2DeltaT: the branches in source order.  `below` is the bound of  *)
(* the test `y < below`; the polynomial is in (y - ref)/per; `minus` is    *)
(* the term `- 0.5628 * (2150 - y)` of the last branch.                    *)
Segment(below, ref, per, coeffs, minus) ==
    [below |-> below, ref |-> ref, per |-> per, coeffs |-> coeffs, minus |-> minus]

LongTermParabola == << <<-20, 0, 1>>, <<0, 0, 1>>, <<32, 0, 1>> >>

DeltaTSegments ==
    << Segment(-500, 1820, 100, LongTermParabola, NoValue),
       Segment(500, 0, 100,
               << <<105836, 1, 1>>, <<-101441, 2, 1>>, <<3378311, 5, 1>>,
                  <<-5952053, 6, 1>>, <<-1798452, 7, 1>>, <<22174192, 9, 1>>,
                  <<90316521, 10, 1>> >>, NoValue),
       Segment(1600, 1000, 100,
               << <<15742, 1, 1>>, <<-55601, 2, 1>>, <<7123472, 5, 1>>,
                  <<319781, 6, 1>>, <<-8503463, 7, 1>>, <<-5050998, 9, 1>>,
                  <<83572073, 10, 1>> >>, NoValue),
       Segment(1700, 1600, 1,
               << <<120, 0, 1>>, <<-9808, 4, 1>>, <<-1532, 5, 1>>,
                  <<1, 0, 7129>> >>, NoValue),
       Segment(1800, 1700, 1,
               << <<883, 2, 1>>, <<1603, 4, 1>>, <<-59285, 7, 1>>,
                  <<13336, 8, 1>>, <<-1, 0, 1174000>> >>, NoValue),
       Segment(1860, 1800, 1,
               << <<1372, 2, 1>>, <<-332447, 6, 1>>, <<68612, 7, 1>>,
                  <<41116, 7, 1>>, <<-37436, 8, 1>>, <<121272, 10, 1>>,
                  <<-1699, 10, 1>>, <<875, 12, 1>> >>, NoValue),
       Segment(1900, 1860, 1,
               << <<762, 2, 1>>, <<5737, 4, 1>>, <<-251754, 6, 1>>,
                  <<1680668, 8, 1>>, <<-4473624, 10, 1>>,
                  <<1, 0, 233174>> >>, NoValue),
       Segment(1920, 1900, 1,
               << <<-279, 2, 1>>, <<1494119, 6, 1>>, <<-598939, 7, 1>>,
                  <<61966, 7, 1>>, <<-197, 6, 1>> >>, NoValue),
       Segment(1941, 1920, 1,
               << <<2120, 2, 1>>, <<84493, 5, 1>>, <<-76100, 6, 1>>,
                  <<20936, 7, 1>> >>, NoValue),
       Segment(1961, 1950, 1,
               << <<2907, 2, 1>>, <<407, 3, 1>>, <<-1, 0, 233>>,
                  <<1, 0, 2547>> >>, NoValue),
       Segment(1986, 1975, 1,
               << <<4545, 2, 1>>, <<1067, 3, 1>>, <<-1, 0, 260>>,
                  <<-1, 0, 718>> >>, NoValue),
       Segment(2005, 2000, 1,
               << <<6386, 2, 1>>, <<3345, 4, 1>>, <<-60374, 6, 1>>,
                  <<17275, 7, 1>>, <<651814, 9, 1>>,
                  <<2373599, 11, 1>> >>, NoValue),
       Segment(2050, 2000, 1,
               << <<6292, 2, 1>>, <<32217, 5, 1>>, <<5589, 6, 1>> >>, NoValue),
       Segment(2150, 1820, 100, LongTermParabola,
               [c |-> <<5628, 4, 1>>, ref |-> 2150]) >>

(* decYear2DeltaT: the default `u = (y-1820)/100; r = -20 + 32*pow(u,2)`,  *)
(* kept when no test holds.                                                *)
DefaultSegment == Segment(NoValue, 1820, 100, LongTermParabola, NoValue)

SegmentTest(i, y12) == y12 < 12 * DeltaTSegments[i].below

(* The branch taken if the tests were separate `if`s, each overwriting r:  *)
(* the last test that holds.                                               *)
SegmentOf_LastMatch(y12) ==
    IF \E i \in DOMAIN DeltaTSegments : SegmentTest(i, y12)
    THEN CHOOSE i \in DOMAIN DeltaTSegments :
             /\ SegmentTest(i, y12)
             /\ \A j \in DOMAIN DeltaTSegments : j > i => ~SegmentTest(j, y12)
    ELSE 0

(* decYear2DeltaT: the `if ... else if` chain takes the first test that    *)
(* holds; 0 when none does.                                                *)
SegmentOf(y12) ==
    IF \E i \in DOMAIN DeltaTSegments : SegmentTest(i, y12)
    THEN CHOOSE i \in DOMAIN DeltaTSegments :
             /\ SegmentTest(i, y12)
             /\ \A j \in DOMAIN DeltaTSegments : j < i => ~SegmentTest(j, y12)
    ELSE 0

(* decYear2DeltaT(y), y given in twelfths of a year: the number of the     *)
(* branch taken (0 for none) and the value assigned to r.                  *)
decYear2DeltaT(y12) ==
    LET i == SegmentOf(y12)
        seg == IF i = 0 THEN DefaultSegment ELSE DeltaTSegments[i]
    IN  [branch |-> i,
         r |-> Poly(seg.coeffs, y12 - 12 * seg.ref, 12 * seg.per),
         minus |-> IF seg.minus = NoValue THEN NoValue
                   ELSE [c |-> seg.minus.c, num |-> 12 * seg.minus.ref - y12,
                         den |-> 12]]

(* getDeltaTByEspenakMeeus, after getDateFromJulianDay has written d.      *)
getDeltaTByEspenakMeeus(d) == decYear2DeltaT(DecimalYear12(d))

-----------------------------------------------------------------------------
(* getDeltaTByStephensonMorrison1984: the two range tests; the first one   *)
(* widened so that it overlaps the second.                                 *)
StephensonMorrisonFirst_Overlapping(year) == -391 < year /\ year <= 1600

StephensonMorrisonFirst(year) == -391 < year /\ year <= 948

StephensonMorrisonSecond(year) == 948 < year /\ year <= 1600

(* getDeltaTByStephensonMorrison1984, after getDateFromJulianDay has       *)
(* written d: `assigned` lists the assignments to deltaT that were         *)
(* executed, in order; deltaT is the last of them, or the initial 0.       *)
getDeltaTByStephensonMorrison1984(d) ==
    LET year == d[1]
        num == DecimalYear12(d) - 12 * 1800
        first == Poly(<< <<13600, 1, 1>>, <<320, 0, 1>>, <<443, 1, 1>> >>, num, 1200)
        second == Poly(<< <<0, 0, 1>>, <<0, 0, 1>>, <<255, 1, 1>> >>, num, 1200)
        assigned == (IF StephensonMorrisonFirst(year) THEN <<first>> ELSE <<>>)
                    \o (IF StephensonMorrisonSecond(year) THEN <<second>> ELSE <<>>)
    IN  [assigned |-> assigned,
         deltaT |-> IF assigned = <<>> THEN Literal(0, 0)
                    ELSE assigned[Len(assigned)]]

-----------------------------------------------------------------------------
(* static const int MeeusDeltaTTable[]: 191 values, indices 0..190.        *)
MeeusDeltaTTable ==
   <<
      1210, 1120, 1030, 950, 880, 820, 770, 720, 680, 630, 600, 560,
      530, 510, 480, 460, 440, 420, 400, 380, 350, 330, 310, 290,
      260, 240, 220, 200, 180, 160, 140, 120, 110, 100, 90, 80,
      70, 70, 70, 70, 70, 70, 80, 80, 90, 90, 90, 90,
      90, 100, 100, 100, 100, 100, 100, 100, 100, 110, 110, 110,
      110, 110, 120, 120, 120, 120, 130, 130, 130, 140, 140, 140,
      140, 150, 150, 150, 150, 150, 160, 160, 160, 160, 160, 160,
      160, 160, 150, 150, 140, 130, 131, 125, 122, 120, 120, 120,
      120, 120, 120, 119, 116, 11, 102, 92, 82, 71, 62, 56,
      54, 53, 54, 56, 59, 62, 65, 68, 71, 73, 75, 76,
      77, 73, 62, 52, 27, 14, -12, -28, -38, -48, -55, -53,
      -56, -57, -59, -60, -63, -65, -62, -47, -28, -1, 26, 53,
      77, 104, 133, 160, 182, 202, 211, 224, 235, 238, 243, 240,
      239, 239, 237, 240, 243, 253, 262, 273, 282, 291, 300, 307,
      314, 322, 331, 340, 350, 365, 383, 402, 422, 445, 465, 485,
      505, 522, 538, 549, 558, 569, 583, 600, 616, 630, 650
   >>

(* MeeusDeltaTTable[i]; an index outside the array reads whatever lies     *)
(* next to it in memory.                                                   *)
TableRead(i, garbage) ==
    IF i \in 0..(Len(MeeusDeltaTTable) - 1) THEN MeeusDeltaTTable[i + 1] ELSE garbage

(* getDeltaTByMeeus: `pos`, rounded up instead of truncated.               *)
MeeusPos_RoundedUp(year) == TruncDiv(year - 1620 + 1, 2)

(* getDeltaTByMeeus: `int pos=(year-1620)/2`.                              *)
MeeusPos(year) == TruncDiv(year - 1620, 2)

(* The double jDay - 2451545.0, in days and ticks.                         *)
SinceJ2000(jdv) == [int |-> jdv.int - 2451545, frac |-> jdv.frac]

(* getDeltaTByMeeus, after getDateFromJulianDay has written d.  The table  *)
(* branch is computed exactly: with w24 = 24 * (yeardec-(2*pos+1620))*0.5, *)
(* 240 * deltaT = 24 * table[pos] + w24 * (table[pos+1] - table[pos]).     *)
getDeltaTByMeeus(jdv, d, garbage) ==
    LET year == d[1]
        u20 == SinceJ2000(jdv)
        early == Poly(<< <<21770, 1, 1>>, <<4970, 1, 1>>, <<441, 1, 1>> >>, u20, 36525)
        late == Poly(<< <<1020, 1, 1>>, <<1020, 1, 1>>, <<253, 1, 1>> >>, u20, 36525)
    IN  IF year < 948 THEN [branch |-> "year<948", deltaT |-> early]
        ELSE IF year < 1620 THEN [branch |-> "year<1620", deltaT |-> late]
        ELSE IF year < 2000
        THEN LET pos == MeeusPos(year)
                 w24 == DecimalYear12(d) - 12 * (2 * pos + 1620)
                 lo == TableRead(pos, garbage)
                 hi == TableRead(pos + 1, garbage)
             IN  [branch |-> "year<2000", pos |-> pos, reads |-> {pos, pos + 1},
                  w24 |-> w24, deltaT240 |-> 24 * lo + w24 * (hi - lo)]
        ELSE IF year < 2100
        THEN [branch |-> "year<2100", deltaT |-> late,
              plus |-> [c |-> <<37, 2, 1>>, num |-> year - 2100, den |-> 1]]
        ELSE [branch |-> "else", deltaT |-> late]

-----------------------------------------------------------------------------
(* getDeltaTStandardError returns sigma in units of 1/SigmaScale second:   *)
(* 0.8 * (n/1200)^2 = n^2 / 1800000 for yeardec - 1820 = n/12 years.       *)
SigmaScale == 1800000

(* getDeltaTStandardError: the range test with the lower bound excluded.   *)
StandardErrorKnown_Exclusive(year) == -1000 < year /\ year <= 1600

(* getDeltaTStandardError: `-1000 <= year and year <= 1600`.               *)
StandardErrorKnown(year) == -1000 <= year /\ year <= 1600

(* getDeltaTStandardError, after getDateFromJulianDay has written d.       *)
getDeltaTStandardError(d) ==
    LET n == DecimalYear12(d) - 12 * 1820
    IN  IF StandardErrorKnown(d[1]) THEN n * n ELSE -1 * SigmaScale

-----------------------------------------------------------------------------
(* Inputs of the Delta-T functions: the Julian Days, at noon and at        *)
(* midnight, of DeltaTWindow days on either side of the first of January   *)
(* of the years where a test of one of the functions changes, and of the   *)
(* first and the 31st of every month of 1620..1999 (the 31st of a shorter  *)
(* month being a day early in the next one).                               *)
DeltaTWindow == 400
DeltaTYearCentres == {-1000, -600, -500, -390, 500, 949, 1601, 1620, 1700, 1800,
                      1860, 1900, 1920, 1941, 1961, 1986, 2000, 2005, 2050,
                      2100, 2150}
DeltaTJDs ==
    UNION {(DayNumber(c, 1, 1) - DeltaTWindow)..(DayNumber(c, 1, 1) + DeltaTWindow) :
               c \in DeltaTYearCentres}
    \cup {DayNumber(y, m, d) : y \in 1620..1999, m \in 1..12, d \in {1, 31}}

InitDeltaT ==
    /\ pc = "deltaT"
    /\ arg = NoValue
    /\ \E n \in DeltaTJDs, f \in {0, HalfDayTicks} : jd = [int |-> n, frac |-> f]
    /\ ndays = 0 /\ date = NoValue /\ time = NoValue
    /\ RollIdle

CallGetDeltaTByEspenakMeeus ==
    /\ pc = "deltaT"
    /\ date' = getDateFromJulianDay(jd)
    /\ ret' = getDeltaTByEspenakMeeus(date')
    /\ pc' = "EspenakMeeus"
    /\ UNCHANGED <<arg, ndays, jd, time, oy, om, od, oh, omin, os, change>>

CallGetDeltaTByStephensonMorrison1984 ==
    /\ pc = "deltaT"
    /\ date' = getDateFromJulianDay(jd)
    /\ ret' = getDeltaTByStephensonMorrison1984(date')
    /\ pc' = "StephensonMorrison1984"
    /\ UNCHANGED <<arg, ndays, jd, time, oy, om, od, oh, omin, os, change>>

CallGetDeltaTByMeeus ==
    /\ pc = "deltaT"
    /\ date' = getDateFromJulianDay(jd)
    /\ \E garbage \in {-1, 0, 1} : ret' = getDeltaTByMeeus(jd, date', garbage)
    /\ pc' = "Meeus"
    /\ UNCHANGED <<arg, ndays, jd, time, oy, om, od, oh, omin, os, change>>

CallGetDeltaTStandardError ==
    /\ pc = "deltaT"
    /\ date' = getDateFromJulianDay(jd)
    /\ ret' = getDeltaTStandardError(date')
    /\ pc' = "StandardError"
    /\ UNCHANGED <<arg, ndays, jd, time, oy, om, od, oh, omin, os, change>>

NextDeltaT ==
    \/ CallGetDeltaTByEspenakMeeus
    \/ CallGetDeltaTByStephensonMorrison1984
    \/ CallGetDeltaTByMeeus
    \/ CallGetDeltaTStandardError

SpecDeltaT == InitDeltaT /\ [][NextDeltaT]_vars

-----------------------------------------------------------------------------
(* C12: getDeltaTByStephensonMorrison1984 returns exactly 0 when the year  *)
(* is <= -391 or > 1600; for -391 < year <= 1600 it is evaluated by        *)
(* exactly one of its two polynomials, 1360 + 320 u + 44.3 u^2 up to year  *)
(* 948 and 25.5 u^2 after it, u = (decimal year - 1800)/100.               *)
C12_StephensonMorrisonRange ==
    pc = "StephensonMorrison1984" =>
        LET year == date[1]
            num == DecimalYear12(date) - 12 * 1800
        IN  IF year <= -391 \/ year > 1600
            THEN ret.assigned = <<>> /\ ret.deltaT = Literal(0, 0)
            ELSE /\ Len(ret.assigned) = 1
                 /\ ret.deltaT = ret.assigned[1]
                 /\ ret.deltaT =
                      IF year <= 948
                      THEN Poly(<< <<13600, 1, 1>>, <<320, 0, 1>>, <<443, 1, 1>> >>,
                                num, 1200)
                      ELSE Poly(<< <<0, 0, 1>>, <<0, 0, 1>>, <<255, 1, 1>> >>,
                                num, 1200)

(* A date of year 949, the first year of the second polynomial, has been   *)
(* evaluated by that polynomial alone.                                     *)
C12_Witness ==
    /\ pc = "StephensonMorrison1984" /\ date[1] = 949
    /\ Len(ret.assigned) = 1 /\ ret.deltaT.coeffs[3] = <<255, 1, 1>>

(* C13: for a date with 1620 <= year < 2000 getDeltaTByMeeus computes      *)
(* pos = (year - 1620) div 2, reads only table[pos] and table[pos + 1],    *)
(* both indices within 0..190, and returns                                 *)
(* (table[pos] + w * (table[pos+1] - table[pos])) / 10 with                *)
(* w = (decimal year - (1620 + 2 pos)) / 2 in [0, 1]; for year 1700 pos is *)
(* 40 and the entries read are 40 and 41.                                  *)
C13_MeeusInterpolation ==
    (pc = "Meeus" /\ date[1] >= 1620 /\ date[1] < 2000) =>
        LET year == date[1]
            pos == (year - 1620) \div 2
            w24 == DecimalYear12(date) - 12 * (1620 + 2 * pos)
        IN  /\ ret.branch = "year<2000"
            /\ ret.pos = pos
            /\ ret.reads = {pos, pos + 1}
            /\ ret.reads \subseteq 0..190
            /\ Len(MeeusDeltaTTable) = 191
            /\ ret.w24 = w24 /\ 0 <= w24 /\ w24 <= 24
            /\ ret.deltaT240 = 24 * MeeusDeltaTTable[pos + 1]
                               + w24 * (MeeusDeltaTTable[pos + 2]
                                        - MeeusDeltaTTable[pos + 1])
            /\ year = 1700 => ret.pos = 40 /\ ret.reads = {40, 41}

(* The last day of 1999 has been interpolated between the last two entries *)
(* of the table, with weight 1.                                            *)
C13_Witness ==
    /\ pc = "Meeus" /\ date = <<1999, 12, 31>>
    /\ ret.reads = {189, 190} /\ ret.w24 = 24 /\ ret.deltaT240 = 24 * 650


(* The upper bounds of the tests of decYear2DeltaT, in the order in which  *)
(* they are made.                                                          *)
AscendingBounds ==
    <<-500, 500, 1600, 1700, 1800, 1860, 1900, 1920, 1941, 1961, 1986, 2005,
      2050, 2150>>

(* C14: decYear2DeltaT evaluates every decimal year y by exactly one       *)
(* segment, the first of the ascending tests y < bound that holds; y <     *)
(* -500 and y >= 2150 are both evaluated by -20 + 32 ((y - 1820)/100)^2; a *)
(* date of year -600 takes the branch y < -500; 2000-01-01 has decimal     *)
(* year 2000.0, falls in 1986 <= y < 2005 and yields 63.86 seconds.        *)
C14_SegmentChoice ==
    pc = "EspenakMeeus" =>
        LET y12 == DecimalYear12(date)
            Holds(i) == y12 < 12 * AscendingBounds[i]
        IN  /\ \A i, j \in DOMAIN AscendingBounds :
                  i < j => AscendingBounds[i] < AscendingBounds[j]
            /\ \A i \in DOMAIN AscendingBounds :
                  ret.branch = i <=>
                      (Holds(i) /\ \A j \in 1..(i - 1) : ~Holds(j))
            /\ ret.branch = 0 <=> y12 >= 12 * 2150
            /\ (y12 < 12 * (-500) \/ y12 >= 12 * 2150) =>
                  /\ ret.r = Poly(<< <<-20, 0, 1>>, <<0, 0, 1>>, <<32, 0, 1>> >>,
                                  y12 - 12 * 1820, 1200)
                  /\ ret.minus = NoValue
            /\ date[1] = -600 => ret.branch = 1
            /\ date = <<2000, 1, 1>> =>
                  /\ y12 = 12 * 2000
                  /\ AscendingBounds[ret.branch] = 2005
                  /\ AscendingBounds[ret.branch - 1] = 1986
                  /\ ret.r.num = 0 /\ ret.r.coeffs[1] = <<6386, 2, 1>>

(* 2000-01-01 has been evaluated, at the origin of its segment.            *)
C14_Witness ==
    /\ pc = "EspenakMeeus" /\ date = <<2000, 1, 1>>
    /\ ret.branch = 12 /\ ret.r.num = 0

(* C19: getDeltaTStandardError returns -1 exactly when the year is outside *)
(* [-1000, 1600]; inside it returns 0.8 * ((decimal year - 1820)/100)^2,   *)
(* which is never negative, so the sentinel is never produced there.  The  *)
(* value is in units of 1/SigmaScale second, and the argument of the       *)
(* square is n/1200 with n in twelfths of a year.                          *)
C19_StandardErrorSentinel ==
    pc = "StandardError" =>
        LET year == date[1]
            n == DecimalYear12(date) - 12 * 1820
        IN  /\ ret = -SigmaScale <=> (year < -1000 \/ year > 1600)
            /\ (year >= -1000 /\ year <= 1600) =>
                  /\ ret = n * n
                  /\ 8 * SigmaScale = 10 * 1200 * 1200
                  /\ ret >= 0

(* The first day of year -1000, the first year with a known error, has     *)
(* been evaluated.                                                         *)
C19_Witness ==
    /\ pc = "StandardError" /\ date = <<-1000, 1, 1>>
    /\ ret = (12 * 2820) * (12 * 2820)

-----------------------------------------------------------------------------
(* Angle formatting.  The double `angle` is modelled in fixed point by its *)
(* sign and its magnitude after the scaling `angle *= 12./M_PI` (hours) or *)
(* `angle *= 180./M_PI` (degrees), in thousandths of a second of time or   *)
(* of arc: [neg |-> BOOLEAN, mag |-> Nat].  A negative angle smaller than  *)
(* one thousandth is [neg |-> TRUE, mag |-> 0].  Text is a sequence of     *)
(* one-character strings.                                                  *)
Milli == 1000
TurnHms == 24 * 3600 * Milli
TurnDms == 360 * 3600 * Milli

DigitChar == <<"0", "1", "2", "3", "4", "5", "6", "7", "8", "9">>

(* The decimal digits of n >= 0.                                           *)
RECURSIVE Digits(_)
Digits(n) ==
    IF n < 10 THEN <<DigitChar[n + 1]>>
    ELSE Digits(n \div 10) \o <<DigitChar[(n % 10) + 1]>>

(* Field width and pad character of QString::arg and QTextStream: text     *)
(* shorter than the width is padded on the left.                           *)
RECURSIVE Pad(_, _, _)
Pad(text, width, ch) ==
    IF Len(text) >= width THEN text ELSE Pad(<<ch>> \o text, width, ch)

(* An `unsigned int` that was decremented below 0 holds 2^32 + v; it is    *)
(* kept here as the negative v.  Its decimal digits, for -67296 <= v:      *)
(* 2^32 = 42949 * 100000 + 67296.                                          *)
UnsignedDigits(v) ==
    IF v >= 0 THEN Digits(v)
    ELSE Digits(42949) \o Pad(Digits(67296 + v), 5, "0")

(* A double s >= 0 in fixed notation with `precision` decimals (0 or 1),   *)
(* s in thousandths, rounded to the nearest.                               *)
FormatFixed(s, precision) ==
    IF precision = 1
    THEN LET t == (s + 50) \div 100
         IN  Digits(t \div 10) \o <<".">> \o <<DigitChar[(t % 10) + 1]>>
    ELSE Digits((s + 500) \div 1000)

(* The double sum of an angle and a positive offset; a sum smaller than    *)
(* one thousandth has the sign the rounding gives it.                      *)
PlusOffset(a, off, negzero) ==
    LET v == (IF a.neg THEN -a.mag ELSE a.mag) + off
    IN  IF v = 0 THEN [neg |-> a.neg /\ a.mag > 0 /\ negzero, mag |-> 0]
        ELSE [neg |-> v < 0, mag |-> IF v < 0 THEN -v ELSE v]

(* radToHms: h, m and s (thousandths) of an angle.                         *)
radToHms(a) ==
    LET r == a.mag % TurnHms
        v == IF a.neg THEN TurnHms - r ELSE r
    IN  [h |-> v \div (3600 * Milli),
         m |-> (v % (3600 * Milli)) \div (60 * Milli),
         s |-> v % (60 * Milli)]

(* radToHmsStr: `if (h==24 && m==0 && s==0) h=0;` left out.                *)
WrapHour_Never(h, m, s) == h

(* radToHmsStr: `if (h==24 && m==0 && s==0) h=0;`.                         *)
WrapHour(h, m, s) == IF h = 24 /\ m = 0 /\ s = 0 THEN 0 ELSE h

(* radToHmsStr.  The fields printed and the text returned.                 *)
radToHmsStr(a, decimal, negzero) ==
    LET raw == radToHms(PlusOffset(a, 5, negzero))
        width == IF decimal THEN 4 ELSE 2
        precision == IF decimal THEN 1 ELSE 0
        carry == IF decimal THEN <<"6", "0", ".", "0">> ELSE <<"6", "0">>
        up == FormatFixed(raw.s, precision) = carry
        s == IF up THEN 0 ELSE raw.s
        m1 == IF up THEN raw.m + 1 ELSE raw.m
        m == IF m1 = 60 THEN 0 ELSE m1
        h1 == IF m1 = 60 THEN raw.h + 1 ELSE raw.h
        h == WrapHour(h1, m, s)
    IN  [h |-> h, m |-> m, s |-> s,
         sec |-> FormatFixed(s, precision),
         text |-> Pad(Digits(h), width, " ") \o <<"h">>
                  \o Pad(Digits(m), 2, "0") \o <<"m">>
                  \o FormatFixed(s, precision) \o <<"s">>]

(* radToHmsStrAdapt.  `sec` is the seconds field printed, <<>> when none.  *)
radToHmsStrAdapt(a, negzero) ==
    LET raw == radToHms(PlusOffset(a, 5, negzero))
        whole == raw.s \div Milli
        head == Digits(raw.h) \o <<"h">>
        min == Digits(raw.m) \o <<"m">>
        sec == IF (raw.s - whole * Milli) * 100 >= Milli
               THEN Pad(FormatFixed(raw.s, 1), 4, "0")
               ELSE IF whole # 0 THEN Digits(whole) ELSE <<>>
    IN  [h |-> raw.h, m |-> raw.m, s |-> raw.s, sec |-> sec,
         text |-> IF sec # <<>> THEN head \o min \o sec \o <<"s">>
                  ELSE IF raw.m # 0 THEN head \o min
                  ELSE head]

(* radToDms: sign, d, m and s (thousandths) of an angle.                   *)
radToDms(a) ==
    LET v == a.mag % TurnDms
        sign == ~a.neg
        d0 == v \div (3600 * Milli)
        m0 == (v % (3600 * Milli)) \div (60 * Milli)
        s0 == v % (60 * Milli)
        up == s0 * 10 > 599 * Milli
        s == IF up THEN 0 ELSE s0
        m1 == IF up THEN (IF sign THEN m0 + 1 ELSE m0 - 1) ELSE m0
        m == IF m1 = 60 THEN 0 ELSE m1
        d == IF m1 = 60 THEN (IF sign THEN d0 + 1 ELSE d0 - 1) ELSE d0
    IN  [sign |-> sign, d |-> d, m |-> m, s |-> s]

(* radToDmsStr.  The fields printed and the text returned.                 *)
radToDmsStr(a, decimal, useD) ==
    LET r == radToDms([neg |-> a.neg, mag |-> a.mag + 5])
        precision == IF decimal THEN 1 ELSE 0
        width == IF decimal THEN 4 ELSE 2
        sec == Pad(FormatFixed(r.s, precision), width, "0")
    IN  [sign |-> r.sign, d |-> r.d, m |-> r.m, s |-> r.s, sec |-> sec,
         text |-> <<IF r.sign THEN "+" ELSE "-">> \o UnsignedDigits(r.d)
                  \o <<IF useD THEN "d" ELSE "0x00B0">>
                  \o Pad(UnsignedDigits(r.m), 2, "0") \o <<"'">>
                  \o sec \o <<"\"">>]

-----------------------------------------------------------------------------
(* Inputs of the formatters: angles of either sign within FormatWindow     *)
(* thousandths of the places where a field changes or the seconds round:   *)
(* 0, a whole second, 59.5 s, 59.9 s, 59.95 s and 60 s of the first        *)
(* minute, the same at the end of the first hour (degree), and at the end  *)
(* of the turn.                                                            *)
FormatWindow == 60
SecondCentres == {5 * Milli, 59 * Milli + 500, 59 * Milli + 900, 59 * Milli + 950,
                  60 * Milli}
FormatCentres(turn) ==
    {0} \cup SecondCentres
    \cup {59 * 60 * Milli + c : c \in SecondCentres}
    \cup {turn - 60 * Milli + c : c \in SecondCentres}
FormatMagnitudes(turn) ==
    UNION {{n \in (c - FormatWindow)..(c + FormatWindow) : n >= 0} :
               c \in FormatCentres(turn)}

InitFormat ==
    /\ \/ /\ pc = "hms"
          /\ \E sg \in BOOLEAN, n \in FormatMagnitudes(TurnHms), dec \in BOOLEAN :
                 arg = [neg |-> sg, mag |-> n, decimal |-> dec, useD |-> TRUE]
       \/ /\ pc = "dms"
          /\ \E sg \in BOOLEAN, n \in FormatMagnitudes(TurnDms),
                dec \in BOOLEAN, useD \in BOOLEAN :
                 arg = [neg |-> sg, mag |-> n, decimal |-> dec, useD |-> useD]
    /\ ndays = 0 /\ jd = NoValue /\ date = NoValue /\ time = NoValue
    /\ RollIdle

CallRadToHmsStr ==
    /\ pc = "hms"
    /\ \E negzero \in BOOLEAN : ret' = radToHmsStr(arg, arg.decimal, negzero)
    /\ pc' = "radToHmsStr"
    /\ UNCHANGED <<arg, ndays, jd, date, time, oy, om, od, oh, omin, os, change>>

CallRadToHmsStrAdapt ==
    /\ pc = "hms"
    /\ \E negzero \in BOOLEAN : ret' = radToHmsStrAdapt(arg, negzero)
    /\ pc' = "radToHmsStrAdapt"
    /\ UNCHANGED <<arg, ndays, jd, date, time, oy, om, od, oh, omin, os, change>>

CallRadToDms ==
    /\ pc = "dms"
    /\ ret' = radToDms(arg)
    /\ pc' = "radToDms"
    /\ UNCHANGED <<arg, ndays, jd, date, time, oy, om, od, oh, omin, os, change>>

CallRadToDmsStr ==
    /\ pc = "dms"
    /\ ret' = radToDmsStr(arg, arg.decimal, arg.useD)
    /\ pc' = "radToDmsStr"
    /\ UNCHANGED <<arg, ndays, jd, date, time, oy, om, od, oh, omin, os, change>>

NextFormat ==
    \/ CallRadToHmsStr
    \/ CallRadToHmsStrAdapt
    \/ CallRadToDms
    \/ CallRadToDmsStr

SpecFormat == InitFormat /\ [][NextFormat]_vars

-----------------------------------------------------------------------------
(* The angle of arg plus the 0.005 second the formatters add, brought into *)
(* one turn of thousandths: what the fields are a rendering of.            *)
OffsetHms ==
    LET v == (IF arg.neg THEN -arg.mag ELSE arg.mag) + 5
    IN  IF v < 0 THEN TurnHms - ((-v) % TurnHms) ELSE v % TurnHms

(* The step of the last digit printed, and whether seconds s (thousandths) *)
(* round up to 60 at that precision.                                       *)
LastDigit(decimal) == IF decimal THEN 100 ELSE 1000
RoundsToSixty(s, decimal) == s + LastDigit(decimal) \div 2 >= 60 * Milli

SixtyTexts == {<<"6", "0">>, <<"6", "0", ".", "0">>}

(* C15: for every angle and both values of `decimal` radToHmsStr renders   *)
(* an hour in 0..23, a minute in 0..59 and a seconds text below 60, never  *)
(* "60" or "60.0"; when the seconds round up to 60 at the requested        *)
(* precision the minute is incremented and the seconds are 0, when the     *)
(* minute reaches 60 the hour is incremented, and a value rounding to 24h  *)
(* is rendered with hour 0, minute 00 and seconds 0.                       *)
C15_HmsCarry ==
    pc = "radToHmsStr" =>
        LET v == OffsetHms
            s0 == v % (60 * Milli)
            up == RoundsToSixty(s0, arg.decimal)
            w == IF up THEN v - s0 + 60 * Milli ELSE v
        IN  /\ ret.h \in 0..23 /\ ret.m \in 0..59
            /\ ret.sec \notin SixtyTexts
            /\ ret.s + LastDigit(arg.decimal) \div 2 < 60 * Milli
            /\ ret.sec = FormatFixed(ret.s, IF arg.decimal THEN 1 ELSE 0)
            /\ ret.s = (IF up THEN 0 ELSE s0)
            /\ ret.m = (w % (3600 * Milli)) \div (60 * Milli)
            /\ ret.h = (w \div (3600 * Milli)) % 24
            /\ w = TurnHms => ret.h = 0 /\ ret.m = 0 /\ ret.s = 0

(* 23h59m59.96s has been rendered, with one decimal, as 0h00m0.0s.         *)
C15_Witness ==
    /\ pc = "radToHmsStr" /\ ~arg.neg /\ arg.mag = TurnHms - 40 /\ arg.decimal
    /\ ret.h = 0 /\ ret.m = 0 /\ ret.sec = <<"0", ".", "0">>
    /\ ret.text = <<" ", " ", " ", "0", "h", "0", "0", "m", "0", ".", "0", "s">>


(* The magnitude of the angle of arg plus the 0.005 arc second that        *)
(* radToDmsStr adds to it, within one turn.                                *)
OffsetDms == (arg.mag + 5) % TurnDms

(* What the carries are to produce from v thousandths: the seconds set to  *)
(* 0 and the next minute when the seconds round up to 60.                  *)
Carried(v, decimal) ==
    IF RoundsToSixty(v % (60 * Milli), decimal)
    THEN v - (v % (60 * Milli)) + 60 * Milli
    ELSE v

(* C16: for every angle, positive or negative, and both values of          *)
(* `decimal`, radToDms and radToDmsStr never let the unsigned minute wrap  *)
(* below 0; whenever the seconds round up to 60 at the requested precision *)
(* the minute magnitude is incremented and the seconds become 0, whenever  *)
(* the minute reaches 60 the degree magnitude is incremented and the       *)
(* minute becomes 0; the seconds text rendered is never 60 or 60.0.        *)
C16_DmsCarry ==
    /\ pc \in {"radToDms", "radToDmsStr"} => ret.m \in 0..59 /\ ret.d >= 0
    /\ pc = "radToDmsStr" =>
          LET w == Carried(OffsetDms, arg.decimal)
          IN  /\ ret.sec \notin SixtyTexts
              /\ w # OffsetDms =>
                    /\ ret.s = 0
                    /\ ret.m = (w % (3600 * Milli)) \div (60 * Milli)
                    /\ ret.d = w \div (3600 * Milli)

(* What radToDmsStr does keep of C16: for an angle that is not negative,   *)
(* rendered with one decimal, the carries are made and the seconds text is *)
(* never 60.0.                                                             *)
C16_PositiveOneDecimal ==
    (pc = "radToDmsStr" /\ ~arg.neg /\ arg.decimal) =>
        LET w == Carried(OffsetDms, TRUE)
        IN  /\ ret.m \in 0..59 /\ ret.d >= 0
            /\ ret.sec \notin SixtyTexts
            /\ w # OffsetDms =>
                  /\ ret.s = 0
                  /\ ret.m = (w % (3600 * Milli)) \div (60 * Milli)
                  /\ ret.d = w \div (3600 * Milli)

(* C17: for every angle the seconds field rendered by radToHmsStrAdapt is  *)
(* never 60 or 60.0; when the seconds round up to 60 at its one-decimal    *)
(* precision the minute is incremented, and the hour when the minute       *)
(* reaches 60.                                                             *)
C17_AdaptCarry ==
    pc = "radToHmsStrAdapt" =>
        LET w == Carried(OffsetHms, TRUE)
        IN  /\ ret.sec \notin SixtyTexts
            /\ w # OffsetHms =>
                  /\ ret.m = (w % (3600 * Milli)) \div (60 * Milli)
                  /\ ret.h = (w \div (3600 * Milli)) % 24

-----------------------------------------------------------------------------
(* Colours.  A float component is modelled in fixed point, in units of     *)
(* 1/(255 * ColourSub): v * 255 is n / ColourSub for the component n.      *)
ColourSub == 4

HexChar == <<"0", "1", "2", "3", "4", "5", "6", "7", "8", "9",
             "a", "b", "c", "d", "e", "f">>
UpperHexChar == <<"0", "1", "2", "3", "4", "5", "6", "7", "8", "9",
                  "A", "B", "C", "D", "E", "F">>

(* QString::arg(int, fieldWidth, 16, ...): the digits of i >= 0 in base    *)
(* 16, lower case.                                                         *)
RECURSIVE HexDigits(_)
HexDigits(i) ==
    IF i < 16 THEN <<HexChar[i + 1]>>
    ELSE HexDigits(i \div 16) \o <<HexChar[(i % 16) + 1]>>

(* vec3fToHtmlColor: one channel printed with no field width.              *)
HexField_NoWidth(n) ==
    LET i == n \div ColourSub
    IN  HexDigits(IF 255 < i THEN 255 ELSE i)

(* vec3fToHtmlColor: `.arg(qMin(255, int(v[k] * 255)), 2, 16, QChar('0'))` *)
(* for a component n >= 0.                                                 *)
HexField(n) ==
    LET i == n \div ColourSub
    IN  Pad(HexDigits(IF 255 < i THEN 255 ELSE i), 2, "0")

vec3fToHtmlColor(v) == <<"#">> \o HexField(v[1]) \o HexField(v[2]) \o HexField(v[3])

IsHexChar(ch) == \E k \in 1..16 : ch = HexChar[k] \/ ch = UpperHexChar[k]

(* QString::toInt(&ok, 16) of one hexadecimal digit.                       *)
HexValue(ch) == (CHOOSE k \in 1..16 : ch = HexChar[k] \/ ch = UpperHexChar[k]) - 1

(* htmlColorToVec3f: QRegExp("^#([0-9a-fA-F]{2})([0-9a-fA-F]{2})           *)
(* ([0-9a-fA-F]{2})$").exactMatch(c).                                      *)
HtmlColorMatch(c) ==
    /\ Len(c) = 7
    /\ c[1] = "#"
    /\ \A k \in 2..7 : IsHexChar(c[k])

(* htmlColorToVec3f: the three components, `(float)i / 255.` being         *)
(* i * ColourSub units, and (0, 0, 0) when the text does not match.        *)
htmlColorToVec3f(c) ==
    IF HtmlColorMatch(c)
    THEN [k \in 1..3 |->
             (16 * HexValue(c[2 * k]) + HexValue(c[2 * k + 1])) * ColourSub]
    ELSE <<0, 0, 0>>

(* Inputs: every value of the first component from 0 to a little above 1,  *)
(* with the other two at the ends and in the middle of [0, 1); and texts   *)
(* that are not colours.                                                   *)
ColourOne == 255 * ColourSub
ColourFirst == 0..(ColourOne + 2 * ColourSub)
ColourOthers == {0, ColourSub - 1, 15 * ColourSub + 1, 128 * ColourSub, ColourOne - 1}
NotColours == {<<>>, <<"#", "1", "2">>, <<"1", "2", "3", "4", "5", "6", "7">>,
               <<"#", "g", "0", "0", "0", "0", "0">>,
               <<"#", "F", "f", "0", "0", "8", "0">>,
               <<"#", "0", "0", "0", "0", "0", "0", "0">>}

InitColour ==
    /\ \/ /\ pc = "vec3f"
          /\ \E r \in ColourFirst, g \in ColourOthers, b \in ColourOthers :
                 arg = <<r, g, b>>
          /\ ret = NoValue
       \/ /\ pc = "html"
          /\ arg = NoValue
          /\ \E c \in NotColours : ret = [html |-> c]
    /\ ndays = 0 /\ jd = NoValue /\ date = NoValue /\ time = NoValue
    /\ oy = 0 /\ om = 0 /\ od = 0 /\ oh = 0 /\ omin = 0 /\ os = 0
    /\ change = FALSE

CallVec3fToHtmlColor ==
    /\ pc = "vec3f"
    /\ ret' = [html |-> vec3fToHtmlColor(arg)]
    /\ pc' = "html"
    /\ UNCHANGED <<arg, ndays, jd, date, time, oy, om, od, oh, omin, os, change>>

CallHtmlColorToVec3f ==
    /\ pc = "html"
    /\ ret' = [html |-> ret.html, v |-> htmlColorToVec3f(ret.html)]
    /\ pc' = "parsed"
    /\ UNCHANGED <<arg, ndays, jd, date, time, oy, om, od, oh, omin, os, change>>

NextColour == CallVec3fToHtmlColor \/ CallHtmlColorToVec3f

SpecColour == InitColour /\ [][NextColour]_vars

(* C20: for every v with its three components in [0, 1) the text of        *)
(* vec3fToHtmlColor(v) is '#' followed by exactly six hexadecimal digits,  *)
(* so that htmlColorToVec3f does not fall back to (0, 0, 0), and           *)
(* htmlColorToVec3f(vec3fToHtmlColor(v)) differs from v by less than 1/255 *)
(* (ColourSub units) in each channel.                                      *)
C20_ColourRoundTrip ==
    (pc \in {"html", "parsed"} /\ arg # NoValue
        /\ \A k \in 1..3 : 0 <= arg[k] /\ arg[k] < ColourOne) =>
        /\ Len(ret.html) = 7 /\ ret.html[1] = "#"
        /\ \A k \in 2..7 : IsHexChar(ret.html[k])
        /\ pc = "parsed" =>
              \A k \in 1..3 :
                  /\ ret.v[k] - arg[k] < ColourSub
                  /\ arg[k] - ret.v[k] < ColourSub

(* A colour with a channel below 16/255 (one significant hex digit) and a  *)
(* channel just below 1 has made the round trip.                           *)
C20_Witness ==
    /\ pc = "parsed" /\ arg # NoValue
    /\ arg = <<ColourSub * 10 + 3, 0, ColourOne - 1>>
    /\ ret.html = <<"#", "0", "a", "0", "0", "f", "e">>
    /\ ret.v = <<ColourSub * 10, 0, ColourSub * 254>>

-----------------------------------------------------------------------------
(* Parsing.  A QString is a sequence of one-character strings; Chars turns *)
(* a string literal into one.                                              *)
Chars(str) == [i \in 1..Len(str) |-> SubSeq(str, i, i)]

DigitSet == {"0", "1", "2", "3", "4", "5", "6", "7", "8", "9"}
SignSet == {"+", "-"}
SpaceSet == {" "}
CardinalSet == {"N", "S", "E", "W", "n", "s", "e", "w"}
(* Every character of the inputs: what `.` matches.                        *)
Alphabet ==
    DigitSet \cup SignSet \cup SpaceSet \cup CardinalSet
    \cup {"d", "D", "h", "H", "m", "M", "T", "x", "a", ":", "/", ".", "'", "\""}

(* QRegExp.  A pattern is a sequence of items: a character class repeated  *)
(* lo to hi times (hi = -1: any number), captured in group cap (0: none).  *)
Item(cls, lo, hi, cap) == [cls |-> cls, lo |-> lo, hi |-> hi, cap |-> cap]
One(cls, cap) == Item(cls, 1, 1, cap)
Opt(cls, cap) == Item(cls, 0, 1, cap)
Star(cls, cap) == Item(cls, 0, -1, cap)
Plus(cls, cap) == Item(cls, 1, -1, cap)

NoMatch == [ok |-> FALSE, caps |-> <<>>]

(* The number of characters of text from pos on that are in cls, at most   *)
(* limit of them (limit < 0: no limit).                                    *)
RECURSIVE Run(_, _, _, _)
Run(text, pos, cls, limit) ==
    IF limit = 0 \/ pos > Len(text) \/ text[pos] \notin cls THEN 0
    ELSE 1 + Run(text, pos + 1, cls, limit - 1)

(* The ways of matching the items i.. of pat, given the ways `front` of    *)
(* matching the items before them: a way is the position reached and the   *)
(* number of characters taken by every item so far.                        *)
Step(e, text, front) ==
    UNION {{[pos |-> f.pos + n, ns |-> Append(f.ns, n)] :
                n \in e.lo..Run(text, f.pos, e.cls, e.hi)} : f \in front}

RECURSIVE Forward(_, _, _, _)
Forward(pat, text, i, front) ==
    IF i > Len(pat) THEN front
    ELSE Forward(pat, text, i + 1, Step(pat[i], text, front))

(* Whether the counts x are those of a greedier match than the counts y:   *)
(* the first item that differs takes more.                                 *)
RECURSIVE Greedier(_, _)
Greedier(x, y) ==
    IF x = <<>> THEN TRUE
    ELSE IF Head(x) # Head(y) THEN Head(x) > Head(y)
    ELSE Greedier(Tail(x), Tail(y))

(* The texts taken by the items i.. of pat, item i starting at pos.        *)
RECURSIVE CapsFrom(_, _, _, _, _)
CapsFrom(pat, text, ns, i, pos) ==
    IF i > Len(pat) THEN <<>>
    ELSE << [cap |-> pat[i].cap, text |-> SubSeq(text, pos, pos + ns[i] - 1)] >>
         \o CapsFrom(pat, text, ns, i + 1, pos + ns[i])

(* exactMatch of pat against text, every item taking as many characters as *)
(* the rest of the pattern allows.                                         *)
MatchFrom(pat, text) ==
    LET ends == {f \in Forward(pat, text, 1, {[pos |-> 1, ns |-> <<>>]}) :
                     f.pos = Len(text) + 1}
    IN  IF ends = {} THEN NoMatch
        ELSE [ok |-> TRUE,
              caps |-> CapsFrom(pat, text,
                                (CHOOSE f \in ends :
                                     \A g \in ends : Greedier(f.ns, g.ns)).ns,
                                1, 1)]

(* exactMatch against alternatives, the first that matches.                *)
RECURSIVE ExactMatch(_, _)
ExactMatch(pats, text) ==
    IF pats = <<>> THEN NoMatch
    ELSE LET first == MatchFrom(Head(pats), text)
         IN  IF first.ok THEN first ELSE ExactMatch(Tail(pats), text)

(* capturedTexts().at(g) of a match.                                       *)
RECURSIVE Captured(_, _)
Captured(caps, g) ==
    IF caps = <<>> THEN <<>>
    ELSE (IF Head(caps).cap = g THEN Head(caps).text ELSE <<>>)
         \o Captured(Tail(caps), g)

(* The value of a digit, and of a run of digits.                           *)
DigitValue(ch) == (CHOOSE k \in 1..10 : DigitChar[k] = ch) - 1

RECURSIVE DecimalValue(_)
DecimalValue(digits) ==
    IF digits = <<>> THEN 0
    ELSE 10 * DecimalValue(SubSeq(digits, 1, Len(digits) - 1))
         + DigitValue(digits[Len(digits)])

RECURSIVE StripZeros(_)
StripZeros(digits) ==
    IF Len(digits) > 1 /\ Head(digits) = "0" THEN StripZeros(Tail(digits))
    ELSE digits

(* INT_MAX, digit by digit, and the order of two runs of digits of the     *)
(* same length.                                                            *)
IntMaxDigits == Chars("2147483647")

RECURSIVE DigitsLE(_, _)
DigitsLE(x, y) ==
    IF x = <<>> THEN TRUE
    ELSE IF Head(x) # Head(y) THEN DigitValue(Head(x)) < DigitValue(Head(y))
    ELSE DigitsLE(Tail(x), Tail(y))

(* Whether the digits (no leading zeros) are the magnitude of an int; the  *)
(* magnitude 2147483648 of INT_MIN is counted as not fitting.              *)
FitsInt(digits) ==
    \/ Len(digits) < Len(IntMaxDigits)
    \/ Len(digits) = Len(IntMaxDigits) /\ DigitsLE(digits, IntMaxDigits)

(* QString::toInt with the overflow check left out.                        *)
ToInt_Unchecked(text) ==
    LET signed == text # <<>> /\ Head(text) \in SignSet
        digits == StripZeros(IF signed THEN Tail(text) ELSE text)
        v == IF FitsInt(digits) THEN DecimalValue(digits) ELSE 0
    IN  [ok |-> TRUE, v |-> IF signed /\ Head(text) = "-" THEN -v ELSE v]

(* QString::toInt(&ok) of an optional sign and digits: 0 and ok = false    *)
(* when the value does not fit an int.                                     *)
ToInt(text) ==
    LET signed == text # <<>> /\ Head(text) \in SignSet
        digits == StripZeros(IF signed THEN Tail(text) ELSE text)
        v == IF FitsInt(digits) THEN DecimalValue(digits) ELSE 0
    IN  [ok |-> FitsInt(digits),
         v |-> IF signed /\ Head(text) = "-" THEN -v ELSE v]

(* QString::toFloat / toDouble of digits with an optional fraction, in     *)
(* thousandths (the inputs have at most three decimals).                   *)
ToMilli(text) ==
    LET dot == Run(text, 1, DigitSet, -1) + 1
        whole == SubSeq(text, 1, dot - 1)
        frac == SubSeq(text, dot + 1, Len(text))
        padded == SubSeq(frac \o <<"0", "0", "0">>, 1, 3)
    IN  Milli * DecimalValue(whole) + DecimalValue(padded)

-----------------------------------------------------------------------------
(* A double angle returned by a parser: sign bit and magnitude, in         *)
(* thousandths of an arc second (the factor to radians left out).          *)
Angle(neg, mag) == [neg |-> neg, mag |-> mag]
PlusZero == Angle(FALSE, 0)
MinusZero == Angle(TRUE, 0)

(* dmsToRad(d, m, s), s in whole seconds.                                  *)
dmsToRad(d, m, s) ==
    IF d >= 0
    THEN Angle(FALSE, Milli * (3600 * d + 60 * m + s))
    ELSE Angle(TRUE, Milli * (3600 * (-d) + 60 * m + s))

(* dmsStrToRad: QRegExp reg("([\+\-])(\d+)d(\d+)'(\d+)\"").                *)
DmsPattern ==
    << <<One(SignSet, 1), Plus(DigitSet, 2), One({"d"}, 0), Plus(DigitSet, 3),
         One({"'"}, 0), Plus(DigitSet, 4), One({"\""}, 0)>> >>

(* dmsStrToRad.  All the caller receives is the double returned.           *)
dmsStrToRad(text) ==
    LET reg == ExactMatch(DmsPattern, text)
        sign == Captured(reg.caps, 1) = <<"+">>
        deg == ToInt(Captured(reg.caps, 2)).v
        min == ToInt(Captured(reg.caps, 3)).v
        sec == ToInt(Captured(reg.caps, 4)).v
    IN  IF ~reg.ok THEN [value |-> PlusZero]
        ELSE [value |-> dmsToRad(IF sign THEN deg ELSE -deg, min, sec)]

(* getDecAngle: re1 (DMS/HMS), with and without a fraction of the seconds, *)
(* and re2 (decimal), with and without a fraction.  0xBA stands for the    *)
(* character of that code.                                                 *)
DecAngleTail ==
    <<Star(SpaceSet, 0), One({"\"", "S", "s"}, 0), Star(SpaceSet, 0),
      Opt(CardinalSet, 7), Star(SpaceSet, 0)>>
DecAngleHead ==
    <<Star(SpaceSet, 0), Opt(SignSet, 1), Star(SpaceSet, 0), Plus(DigitSet, 2),
      Star(SpaceSet, 0), One({"h", "H", "D", "d", "0xBA"}, 3), Star(SpaceSet, 0),
      Plus(DigitSet, 4), Star(SpaceSet, 0), One({"'", "M", "m"}, 0),
      Star(SpaceSet, 0), Plus(DigitSet, 5)>>
Re1Pattern ==
    << DecAngleHead \o <<One({"."}, 5), Plus(DigitSet, 5)>> \o DecAngleTail,
       DecAngleHead \o DecAngleTail >>
Re2Head ==
    <<Star(SpaceSet, 0), Opt(SignSet, 1), Star(SpaceSet, 0), Plus(DigitSet, 2)>>
Re2Tail == <<Opt(Alphabet, 0), Opt(CardinalSet, 4), Star(SpaceSet, 0)>>
Re2Pattern ==
    << Re2Head \o <<One({"."}, 2), Plus(DigitSet, 2)>> \o Re2Tail,
       Re2Head \o Re2Tail >>

SouthOrWest(cardinal) == cardinal \in {<<"s">>, <<"S">>, <<"w">>, <<"W">>}

(* getDecAngle.  All the caller receives is the double returned.           *)
getDecAngle(text) ==
    LET re1 == ExactMatch(Re1Pattern, text)
        re2 == ExactMatch(Re2Pattern, text)
    IN  IF re1.ok
        THEN LET neg == Captured(re1.caps, 1) = <<"-">>
                 hours == Captured(re1.caps, 3) \in {<<"h">>, <<"H">>}
                 k == IF hours THEN 15 ELSE 1
                 d == k * ToMilli(Captured(re1.caps, 2))
                 m == k * ToMilli(Captured(re1.caps, 4))
                 s == k * ToMilli(Captured(re1.caps, 5))
             IN  [value |-> Angle(SouthOrWest(Captured(re1.caps, 7)) \/ neg,
                                  3600 * d + 60 * m + s)]
        ELSE IF re2.ok
        THEN LET neg == Captured(re2.caps, 1) = <<"-">>
                 deg == ToMilli(Captured(re2.caps, 2))
             IN  [value |-> Angle(SouthOrWest(Captured(re2.caps, 4)) \/ neg,
                                  3600 * deg)]
        ELSE [value |-> MinusZero]

(* getDateTimeFromISO8601String: finalRe, with and without the fraction of *)
(* the seconds.                                                            *)
ISOHead ==
    <<Opt(SignSet, 1), Plus(DigitSet, 1), One({":", "-"}, 0),
      Item(DigitSet, 2, 2, 2), One({":", "-"}, 0), Item(DigitSet, 2, 2, 3),
      One({"T"}, 0), Opt(DigitSet, 4), One(DigitSet, 4), One({":"}, 0),
      Item(DigitSet, 2, 2, 5), One({":"}, 0), Item(DigitSet, 2, 2, 6)>>
ISOPattern == << ISOHead \o <<One({"."}, 6), Star(DigitSet, 6)>>, ISOHead >>

(* getDateTimeFromISO8601String: the bool returned and, after a match, the *)
(* values written through the pointers (s in thousandths; toFloat cannot   *)
(* fail on what group 6 matches).                                          *)
getDateTimeFromISO8601String(text) ==
    LET finalRe == ExactMatch(ISOPattern, text)
        y == ToInt(Captured(finalRe.caps, 1))
        m == ToInt(Captured(finalRe.caps, 2))
        d == ToInt(Captured(finalRe.caps, 3))
        h == ToInt(Captured(finalRe.caps, 4))
        min == ToInt(Captured(finalRe.caps, 5))
        s == ToMilli(Captured(finalRe.caps, 6))
    IN  IF finalRe.ok
        THEN [ok |-> y.ok /\ m.ok /\ d.ok /\ h.ok /\ min.ok,
              y |-> y.v, m |-> m.v, d |-> d.v, h |-> h.v, min |-> min.v, s |-> s]
        ELSE [ok |-> FALSE]

(* getJulianDayFromISO8601String: *ok and the double returned.             *)
(* getJDFromDate always returns true, and its int parameter s truncates    *)
(* the float.                                                              *)
getJulianDayFromISO8601String(text, err) ==
    LET r == getDateTimeFromISO8601String(text)
    IN  IF r.ok
        THEN [ok |-> TRUE,
              value |-> getJDFromDate(r.y, r.m, r.d, r.h, r.min, r.s \div Milli, err)]
        ELSE [ok |-> FALSE, value |-> [int |-> 0, frac |-> 0]]

-----------------------------------------------------------------------------
(* Inputs of the parsers: texts put together from well-formed and          *)
(* malformed pieces, in the three notations; every parser is tried on      *)
(* every text.                                                             *)
DmsTexts ==
    {sg \o dg \o "d" \o mi \o q \o sc \o e :
        sg \in {"+", "-", ""}, dg \in {"0", "12", "x"}, mi \in {"0", "30", ""},
        q \in {"'", "m"}, sc \in {"0", "59"}, e \in {"\"", ""}}
DecAngleTexts ==
    {sg \o nb \o tl :
        sg \in {"", "+", "-", "--", " - "},
        nb \in {"0", "12", "12.5", "12.", ".5", "a", ""},
        tl \in {"", " N", "S", "x", " w ", "xx"}}
    \cup {sg \o bd \o tl :
        sg \in {"", "-"},
        bd \in {"12d30'15\"", "12h30m15.5s", " 1 D 2 M 3 S ", "12d30", "12d30'15.\"",
                "12x30'15\"", "0d0'0\""},
        tl \in {"", "W", " e", "a"}}
ISOTexts ==
    {yr \o s1 \o mo \o "-" \o dy \o t \o hr \o ":00:" \o sc :
        yr \in {"2000", "-4712", "+1", "", "99999999999", "20a0", "0", "1582"},
        s1 \in {"-", ":", "/"}, mo \in {"01", "10", "13", "1"}, dy \in {"01", "10"},
        t \in {"T", " "}, hr \in {"0", "12", "123"},
        sc \in {"00", "59.5", "59.", "5", "00.25x"}}
ParserTexts == DmsTexts \cup DecAngleTexts \cup ISOTexts

InitParse ==
    /\ pc = "text"
    /\ \E t \in ParserTexts : arg = [text |-> Chars(t)]
    /\ ndays = 0 /\ jd = NoValue /\ date = NoValue /\ time = NoValue
    /\ RollIdle

CallDmsStrToRad ==
    /\ pc = "text"
    /\ ret' = dmsStrToRad(arg.text)
    /\ pc' = "dmsStrToRad"
    /\ UNCHANGED <<arg, ndays, jd, date, time, oy, om, od, oh, omin, os, change>>

CallGetDecAngle ==
    /\ pc = "text"
    /\ ret' = getDecAngle(arg.text)
    /\ pc' = "getDecAngle"
    /\ UNCHANGED <<arg, ndays, jd, date, time, oy, om, od, oh, omin, os, change>>

CallGetDateTimeFromISO8601String ==
    /\ pc = "text"
    /\ ret' = getDateTimeFromISO8601String(arg.text)
    /\ pc' = "getDateTimeFromISO8601String"
    /\ UNCHANGED <<arg, ndays, jd, date, time, oy, om, od, oh, omin, os, change>>

CallGetJulianDayFromISO8601String ==
    /\ pc = "text"
    /\ LET r == getDateTimeFromISO8601String(arg.text)
       IN  \E err \in (IF r.ok THEN RoundingErrors(r.h, r.min, r.s \div Milli)
                       ELSE {0}) :
               ret' = getJulianDayFromISO8601String(arg.text, err)
    /\ pc' = "getJulianDayFromISO8601String"
    /\ UNCHANGED <<arg, ndays, jd, date, time, oy, om, od, oh, omin, os, change>>

NextParse ==
    \/ CallDmsStrToRad
    \/ CallGetDecAngle
    \/ CallGetDateTimeFromISO8601String
    \/ CallGetJulianDayFromISO8601String

SpecParse == InitParse /\ [][NextParse]_vars


(* Whether the text handed to the parser that has run is malformed: it     *)
(* does not match the pattern, or one of the patterns, of that parser.     *)
Malformed ==
    CASE pc = "dmsStrToRad" -> ~ExactMatch(DmsPattern, arg.text).ok
      [] pc = "getDecAngle" ->
             ~ExactMatch(Re1Pattern, arg.text).ok /\ ~ExactMatch(Re2Pattern, arg.text).ok
      [] pc \in {"getDateTimeFromISO8601String", "getJulianDayFromISO8601String"} ->
             ~ExactMatch(ISOPattern, arg.text).ok
      [] OTHER -> FALSE

ParserDone ==
    pc \in {"dmsStrToRad", "getDecAngle", "getDateTimeFromISO8601String",
            "getJulianDayFromISO8601String"}

ZeroDay == [int |-> 0, frac |-> 0]

(* Every parser returns on the text of arg: none aborts.                   *)
Returns ==
    /\ DOMAIN dmsStrToRad(arg.text) = {"value"}
    /\ DOMAIN getDecAngle(arg.text) = {"value"}
    /\ getDateTimeFromISO8601String(arg.text).ok \in BOOLEAN
    /\ \A err \in -RoundingTicks..RoundingTicks :
           getJulianDayFromISO8601String(arg.text, err).ok \in BOOLEAN

(* C18: every parsing operation (dmsStrToRad, getDecAngle,                 *)
(* getDateTimeFromISO8601String, getJulianDayFromISO8601String) signals a  *)
(* malformed input through an explicit success flag that the caller can    *)
(* test, together with the default value 0.0, and never aborts; for        *)
(* getJulianDayFromISO8601String a text not matching the date pattern sets *)
(* *ok = false and returns 0.0, and a matching text sets *ok = true.       *)
C18_ExplicitFlag ==
    /\ pc = "text" => Returns
    /\ (ParserDone /\ Malformed) =>
          /\ "ok" \in DOMAIN ret /\ ~ret.ok
          /\ pc \in {"dmsStrToRad", "getDecAngle"} => ret.value.mag = 0
          /\ pc = "getJulianDayFromISO8601String" => ret.value = ZeroDay
    /\ (pc = "getJulianDayFromISO8601String" /\ ~Malformed) => ret.ok

(* The year of a text that matches the date pattern: its digits without    *)
(* sign and leading zeros.                                                 *)
YearDigits ==
    LET yr == Captured(ExactMatch(ISOPattern, arg.text).caps, 1)
    IN  StripZeros(IF Head(yr) \in SignSet THEN Tail(yr) ELSE yr)

(* C18, amended: no parsing operation aborts.  The date parsers signal a   *)
(* malformed input through their success flag:                             *)
(* getDateTimeFromISO8601String returns false, and                         *)
(* getJulianDayFromISO8601String sets *ok = false and returns 0.0, for a   *)
(* text not matching the date pattern and for a matching text whose year   *)
(* does not fit an int; every other matching text sets *ok = true.  The    *)
(* angle parsers have no success flag: the double returned is all the      *)
(* caller receives, and for a malformed input it is 0.0 from dmsStrToRad   *)
(* and -0.0 from getDecAngle, values that well-formed inputs (+0d0'0" and  *)
(* -0) return as well.                                                     *)
C18_ParseFailure ==
    /\ pc = "text" => Returns
    /\ pc = "dmsStrToRad" =>
          /\ DOMAIN ret = {"value"}
          /\ Malformed => ret.value = PlusZero
          /\ dmsStrToRad(Chars("+0d0'0\"")) = [value |-> PlusZero]
    /\ pc = "getDecAngle" =>
          /\ DOMAIN ret = {"value"}
          /\ Malformed => ret.value = MinusZero
          /\ getDecAngle(Chars("-0")) = [value |-> MinusZero]
    /\ pc = "getDateTimeFromISO8601String" =>
          IF Malformed THEN ret = [ok |-> FALSE] ELSE ret.ok = FitsInt(YearDigits)
    /\ pc = "getJulianDayFromISO8601String" =>
          IF Malformed \/ ~FitsInt(YearDigits)
          THEN ret = [ok |-> FALSE, value |-> ZeroDay]
          ELSE /\ ret.ok
               /\ LET r == getDateTimeFromISO8601String(arg.text)
                  IN  \E err \in -RoundingTicks..RoundingTicks :
                          ret.value = getJDFromDate(r.y, r.m, r.d, r.h, r.min,
                                                    r.s \div Milli, err)

(* A text that is not an angle has been given to dmsStrToRad, which has    *)
(* returned 0.                                                             *)
C18_Witness ==
    /\ pc = "dmsStrToRad" /\ arg.text = Chars("+xd0'0\"")
    /\ ret = [value |-> PlusZero]

-----------------------------------------------------------------------------
(* The month carry of changeDateTimeForRollover.                           *)

(* The input has its time in range and a day that every month has.         *)
PlainDay == ValidTime(arg) /\ arg.d \in 1..28

(* Whole groups of twelve months carried into the year.                    *)
CarriedMonth(month) == ((month - 1) % 12) + 1
CarriedYear(year, month) == year + ((month - 1) \div 12)

(* C21: for every input whose second, minute and hour are in range and     *)
(* whose day is in 1..28, and for any integer month M (M > 13 and M < 0    *)
(* included), changeDateTimeForRollover returns month ((M-1) mod 12) + 1,  *)
(* year y + floor((M-1)/12) and the day unchanged.                         *)
C21_MonthCarry ==
    (pc = "done" /\ PlainDay) =>
        /\ om = CarriedMonth(arg.m)
        /\ oy = CarriedYear(arg.y, arg.m)
        /\ od = arg.d

(* The same for the months 0..13, the months whose length is known to      *)
(* numberOfDaysInMonthInYear, the day being left alone unless the date     *)
(* reached is one of the skipped days of October 1582.                     *)
C21_MonthCarryZeroToThirteen ==
    (pc = "done" /\ PlainDay /\ arg.m \in 0..13) =>
        /\ om = CarriedMonth(arg.m)
        /\ oy = CarriedYear(arg.y, arg.m)
        /\ od = IF InReformGap(oy, om, arg.d) THEN 15 ELSE arg.d

(* Month 20 of 2024, day 5, has been normalized to September 2025.         *)
C21_MonthTwenty ==
    /\ pc = "done" /\ change
    /\ arg = [y |-> 2024, m |-> 20, d |-> 5, h |-> 0, min |-> 0, s |-> 0]
    /\ ret = [y |-> 2025, m |-> 9, d |-> 5, h |-> 0, min |-> 0, s |-> 0]

(* The statement of C21 with the snap of the skipped days of October 1582  *)
(* allowed for: any month, the day unchanged unless snapped.               *)
C21_MonthCarryUnlessSnapped ==
    (pc = "done" /\ PlainDay) =>
        /\ om = CarriedMonth(arg.m)
        /\ oy = CarriedYear(arg.y, arg.m)
        /\ od = IF InReformGap(oy, om, arg.d) THEN 15 ELSE arg.d

-----------------------------------------------------------------------------
(* The instant denoted by a tuple of changeDateTimeForRollover.            *)

(* The months of the calendar numbered in sequence: month 1 of year 0 is   *)
(* month 0.                                                                *)
MonthIndex(year, month) == 12 * year + (month - 1)

(* The days of the months first..last-1 of that sequence, each with the    *)
(* length numberOfDaysInMonthInYear gives it.                              *)
RECURSIVE DaysOfMonths(_, _, _)
DaysOfMonths(first, last, acc) ==
    IF first >= last
    THEN acc
    ELSE DaysOfMonths(first + 1, last,
             acc + numberOfDaysInMonthInYear((first % 12) + 1, first \div 12))

(* The days from day 1 of (year0, month0) to day 1 of (year, month).       *)
DaysToMonth(year0, month0, year, month) ==
    IF MonthIndex(year, month) >= MonthIndex(year0, month0)
    THEN DaysOfMonths(MonthIndex(year0, month0), MonthIndex(year, month), 0)
    ELSE -DaysOfMonths(MonthIndex(year, month), MonthIndex(year0, month0), 0)

(* The seconds from 00:00:00 on day 1 of the input (year, month) to the    *)
(* tuple (yr, mo, dy, hr, mi, sc).                                         *)
SecondsFromOrigin(yr, mo, dy, hr, mi, sc) ==
    (DaysToMonth(arg.y, arg.m, yr, mo) + (dy - 1)) * 86400
        + hr * 3600 + mi * 60 + sc

(* The day the gap rule found: a returned 15 October 1582 may have been    *)
(* any of the skipped days.                                                *)
DaysBeforeSnap ==
    IF pc \in {"return", "done"} /\ oy = 1582 /\ om = 10 /\ od = 15
    THEN 5..15
    ELSE {od}

(* C22: for every input with month in 1..12 (any day, hour, minute and     *)
(* second) the seconds from 00:00:00 on day 1 of the input (year, month),  *)
(* counted with numberOfDaysInMonthInYear, are the same for the input      *)
(* tuple, for the tuple held after every carry of a second, minute, hour   *)
(* or day, and for the returned tuple unless the gap rule snapped it.      *)
C22_InstantPreserved ==
    (pc \in LoopLocs \cup {"gap", "return", "done"} /\ arg # NoValue
        /\ arg.m \in 1..12) =>
        \E dy \in DaysBeforeSnap :
            SecondsFromOrigin(oy, om, dy, oh, omin, os)
                = SecondsFromOrigin(arg.y, arg.m, arg.d, arg.h, arg.min, arg.s)

(* 2024-03-00 -1:-1:-1 has been returned as 2024-02-28 22:58:59, the day   *)
(* borrowed from the 29 days of February.                                  *)
C22_Witness ==
    /\ pc = "done" /\ change
    /\ arg = [y |-> 2024, m |-> 3, d |-> 0, h |-> -1, min |-> -1, s |-> -1]
    /\ ret = [y |-> 2024, m |-> 2, d |-> 28, h |-> 22, min |-> 58, s |-> 59]

-----------------------------------------------------------------------------
(* getDateFromJulianDay on consecutive day numbers: a day number J is      *)
(* decoded, then J + 1, the date of J being kept in ret.                   *)
DaySteps == 2

InitConsecutive ==
    /\ pc = "jd"
    /\ arg = NoValue
    /\ \E n \in RawJDs : jd = [int |-> n, frac |-> 0]
    /\ ndays = 0 /\ date = NoValue /\ time = NoValue
    /\ RollIdle

(* The caller goes on to the next day number.                              *)
NextDayNumber ==
    /\ pc = "date" /\ ndays < DaySteps
    /\ ret' = date
    /\ jd' = [int |-> jd.int + 1, frac |-> jd.frac]
    /\ ndays' = ndays + 1
    /\ pc' = "jd"
    /\ UNCHANGED <<arg, date, time, oy, om, od, oh, omin, os, change>>

NextConsecutive == CallGetDateFromJulianDay \/ NextDayNumber

SpecConsecutive == InitConsecutive /\ [][NextConsecutive]_vars

(* The calendar successor of a date: the next day of the month, day 1 of   *)
(* the next month after the last day numberOfDaysInMonthInYear gives the   *)
(* month, January of the next year after December, and 1582-10-15 after    *)
(* 1582-10-04.                                                             *)
Successor(d) ==
    IF d = <<1582, 10, 4>> THEN <<1582, 10, 15>>
    ELSE IF d[3] < numberOfDaysInMonthInYear(d[2], d[1]) THEN <<d[1], d[2], d[3] + 1>>
    ELSE IF d[2] < 12 THEN <<d[1], d[2] + 1, 1>>
    ELSE <<d[1] + 1, 1, 1>>

(* Both the date of J (in ret) and the date of J + 1 are decoded.          *)
BothDecoded == pc = "date" /\ ndays > 0

(* C23: for every integer J (negative, zero, on both sides of 2299161) the *)
(* date getDateFromJulianDay gives for J + 1 is the calendar successor of  *)
(* the date it gives for J; year -1 is followed by year 0 and year 0 by    *)
(* year 1, and 1582-10-04 by 1582-10-15.                                   *)
C23_ConsecutiveDays ==
    BothDecoded =>
        /\ date = Successor(ret)
        /\ ret = <<-1, 12, 31>> => date = <<0, 1, 1>>
        /\ ret = <<0, 12, 31>> => date = <<1, 1, 1>>
        /\ ret = <<1582, 10, 4>> => date = <<1582, 10, 15>>

(* The last day of year -1 and the first day of year 0 have been decoded   *)
(* from consecutive day numbers.                                           *)
C23_Witness ==
    /\ BothDecoded
    /\ jd.int = 1721058
    /\ ret = <<-1, 12, 31>> /\ date = <<0, 1, 1>>

-----------------------------------------------------------------------------
(* getDeltaTByMeeusSimons: the eight `if`s in source order.  The test is   *)
(* `lo <= year and year < hi`, or `year <= hi` where closed; the           *)
(* polynomial is in u = off/100 + ub, ub = (yeardec - 2000)/100.           *)
MeeusSimonsSegment(lo, hi, closed, off, coeffs) ==
    [lo |-> lo, hi |-> hi, closed |-> closed, off |-> off, coeffs |-> coeffs]

MeeusSimonsSegments ==
    << MeeusSimonsSegment(1620, 1690, FALSE, 345,
           << <<403, 1, 1>>, <<-1070, 1, 1>>, <<500, 1, 1>>, <<-4540, 1, 1>>,
              <<12440, 1, 1>> >>),
       MeeusSimonsSegment(1690, 1770, FALSE, 270,
           << <<102, 1, 1>>, <<113, 1, 1>>, <<-1, 0, 1>>, <<-160, 1, 1>>,
              <<700, 1, 1>> >>),
       MeeusSimonsSegment(1770, 1820, FALSE, 205,
           << <<147, 1, 1>>, <<-188, 1, 1>>, <<-220, 1, 1>>, <<1730, 1, 1>>,
              <<60, 1, 1>> >>),
       MeeusSimonsSegment(1820, 1870, FALSE, 155,
           << <<57, 1, 1>>, <<127, 1, 1>>, <<1110, 1, 1>>, <<-5340, 1, 1>>,
              <<16540, 1, 1>> >>),
       MeeusSimonsSegment(1870, 1900, FALSE, 115,
           << <<-58, 1, 1>>, <<-146, 1, 1>>, <<270, 1, 1>>, <<1010, 1, 1>>,
              <<82340, 1, 1>> >>),
       MeeusSimonsSegment(1900, 1940, FALSE, 80,
           << <<214, 1, 1>>, <<670, 1, 1>>, <<4430, 1, 1>>, <<190, 1, 1>>,
              <<44410, 1, 1>> >>),
       MeeusSimonsSegment(1940, 1990, FALSE, 35,
           << <<362, 1, 1>>, <<740, 1, 1>>, <<1890, 1, 1>>, <<-1400, 1, 1>>,
              <<-18830, 1, 1>> >>),
       MeeusSimonsSegment(1900, 2000, TRUE, 5,
           << <<608, 1, 1>>, <<820, 1, 1>>, <<1880, 1, 1>>,
              <<-50340, 1, 1>> >>) >>

(* The last test with the lower bound 1990 of Meeus & Simons' table.       *)
MeeusSimonsLow_From1990(i) == IF i = 8 THEN 1990 ELSE MeeusSimonsSegments[i].lo

(* The lower bound of the i-th test as written.                            *)
MeeusSimonsLow(i) == MeeusSimonsSegments[i].lo

MeeusSimonsTest(i, year) ==
    /\ MeeusSimonsLow(i) <= year
    /\ IF MeeusSimonsSegments[i].closed
       THEN year <= MeeusSimonsSegments[i].hi
       ELSE year < MeeusSimonsSegments[i].hi

(* The value the i-th `if` assigns to deltaT.                              *)
MeeusSimonsPoly(i, y12) ==
    Poly(MeeusSimonsSegments[i].coeffs,
         12 * MeeusSimonsSegments[i].off + y12 - 12 * 2000, 12 * 100)

(* getDeltaTByMeeusSimons, after getDateFromJulianDay has written d:       *)
(* `assigned` lists the `if`s whose body was executed, in order; deltaT is *)
(* the value assigned by the last of them, or the initial 0.               *)
getDeltaTByMeeusSimons(d) ==
    LET Taken(i) == MeeusSimonsTest(i, d[1])
        assigned == SelectSeq(<<1, 2, 3, 4, 5, 6, 7, 8>>, Taken)
    IN  [assigned |-> assigned,
         deltaT |-> IF assigned = <<>> THEN Literal(0, 0)
                    ELSE MeeusSimonsPoly(assigned[Len(assigned)], DecimalYear12(d))]

CallGetDeltaTByMeeusSimons ==
    /\ pc = "deltaT"
    /\ date' = getDateFromJulianDay(jd)
    /\ ret' = getDeltaTByMeeusSimons(date')
    /\ pc' = "MeeusSimons"
    /\ UNCHANGED <<arg, ndays, jd, time, oy, om, od, oh, omin, os, change>>

NextMeeusSimons == CallGetDeltaTByMeeusSimons

SpecMeeusSimons == InitDeltaT /\ [][NextMeeusSimons]_vars

(* C24: the eight segment conditions of getDeltaTByMeeusSimons are         *)
(* pairwise disjoint; for every year in 1620..2000 exactly one polynomial  *)
(* assigns the result, the 1900-1940 and the 1940-1990 polynomials being   *)
(* the ones returned for the years 1900..1989; for every year outside      *)
(* 1620..2000 the result is 0.                                             *)
C24_DisjointSegments ==
    pc = "MeeusSimons" =>
        LET year == date[1]
            y12 == DecimalYear12(date)
        IN  /\ \A i, j \in DOMAIN MeeusSimonsSegments :
                   i # j => ~(MeeusSimonsTest(i, year) /\ MeeusSimonsTest(j, year))
            /\ year \in 1620..2000 => Len(ret.assigned) = 1
            /\ year \in 1900..1939 => ret.deltaT = MeeusSimonsPoly(6, y12)
            /\ year \in 1940..1989 => ret.deltaT = MeeusSimonsPoly(7, y12)
            /\ year \notin 1620..2000 =>
                   ret.assigned = <<>> /\ ret.deltaT = Literal(0, 0)

(* What the code does: one assignment for the years 1620..1899 and         *)
(* 1990..2000; for 1900..1989 the sixth or the seventh polynomial is       *)
(* assigned and then overwritten by the eighth; 0 outside 1620..2000.      *)
C24_LastAssignmentReturned ==
    pc = "MeeusSimons" =>
        LET year == date[1]
            y12 == DecimalYear12(date)
        IN  /\ year \in (1620..1899) \cup (1990..2000) => Len(ret.assigned) = 1
            /\ year \in 1900..1939 => ret.assigned = <<6, 8>>
            /\ year \in 1940..1989 => ret.assigned = <<7, 8>>
            /\ year \in 1900..2000 => ret.deltaT = MeeusSimonsPoly(8, y12)
            /\ year \notin 1620..2000 =>
                   ret.assigned = <<>> /\ ret.deltaT = Literal(0, 0)

(* 1950-01-01 has been given the polynomial of the last segment, at        *)
(* u = 0.05 - 0.5.                                                         *)
C24_Year1950 ==
    /\ pc = "MeeusSimons" /\ date = <<1950, 1, 1>>
    /\ ret.assigned = <<7, 8>>
    /\ ret.deltaT.num = -540 /\ ret.deltaT.den = 1200
    /\ Len(ret.deltaT.coeffs) = 4

-----------------------------------------------------------------------------
(* julianDayToISO8601String: `.arg(n, width, 10, QLatin1Char('0'))` of a   *)
(* number n >= 0.                                                          *)
ZeroPadded(n, width) == Pad(Digits(n), width, "0")

(* julianDayToISO8601String: the date and the time decoded from the same   *)
(* jd, and the text built from them; the year is printed by its magnitude  *)
(* and "-" is prepended when it is negative.                               *)
julianDayToISO8601String(jdv) ==
    LET d == getDateFromJulianDay(jdv)
        t == getTimeFromJulianDay(jdv)
        res == ZeroPadded(IF d[1] >= 0 THEN d[1] ELSE -d[1], 4) \o <<"-">>
                 \o ZeroPadded(d[2], 2) \o <<"-">> \o ZeroPadded(d[3], 2)
                 \o <<"T">> \o ZeroPadded(t[1], 2) \o <<":">>
                 \o ZeroPadded(t[2], 2) \o <<":">> \o ZeroPadded(t[3], 2)
    IN  [date |-> d, time |-> t,
         res |-> IF d[1] < 0 THEN <<"-">> \o res ELSE res]

CallJulianDayToISO8601String ==
    /\ pc = "jd"
    /\ date' = julianDayToISO8601String(jd).date
    /\ time' = julianDayToISO8601String(jd).time
    /\ ret' = julianDayToISO8601String(jd).res
    /\ pc' = "iso"
    /\ UNCHANGED <<arg, ndays, jd, oy, om, od, oh, omin, os, change>>

NextISO == CallGetJDFromDate \/ CallJulianDayToISO8601String

SpecISO == InitCal /\ [][NextISO]_vars

(* Two Julian Days at most one second apart.                               *)
WithinOneSecond(a, b) ==
    \/ a.int = b.int /\ a.frac - b.frac \in (-TicksPerSecond)..TicksPerSecond
    \/ a.int = b.int + 1 /\ TicksPerDay - b.frac <= TicksPerSecond - a.frac
    \/ b.int = a.int + 1 /\ TicksPerDay - a.frac <= TicksPerSecond - b.frac

(* The JD that getJDFromDate builds from the decoded date and time is at   *)
(* most one second from jd.                                                *)
DecodedSameInstant ==
    \A err \in RoundingErrors(time[1], time[2], time[3]) :
        WithinOneSecond(getJDFromDate(date[1], date[2], date[3],
                                      time[1], time[2], time[3], err), jd)

(* jd lies before a civil midnight by less than the 0.0001 second that     *)
(* getTimeFromJulianDay adds.                                              *)
JustBeforeMidnight ==
    jd.frac < HalfDayTicks /\ jd.frac + TicksPerSecond \div 10000 >= HalfDayTicks

(* C25: for every JD, a JD less than 0.0001 second before a civil midnight *)
(* included, the date from getDateFromJulianDay and the time from          *)
(* getTimeFromJulianDay, fed back into getJDFromDate, give a JD within one *)
(* second of the original; julianDayToISO8601String never pairs the date   *)
(* of the day that is ending with the time 00:00:00.                       *)
C25_DateAndTimeAgree ==
    pc = "iso" =>
        /\ DecodedSameInstant
        /\ ~(jd.frac < HalfDayTicks /\ time = <<0, 0, 0>>)

(* The same for every JD that is not within 0.0001 second before a civil   *)
(* midnight.                                                               *)
C25_AgreeAwayFromMidnight ==
    (pc = "iso" /\ ~JustBeforeMidnight) =>
        /\ DecodedSameInstant
        /\ ~(jd.frac < HalfDayTicks /\ time = <<0, 0, 0>>)

(* The JD one tick before 2000-01-01T00:00:00 has been printed as the      *)
(* midnight that began 1999-12-31.                                         *)
C25_MidnightMismatch ==
    /\ pc = "iso"
    /\ jd = [int |-> 2451544, frac |-> HalfDayTicks - 1]
    /\ date = <<1999, 12, 31>> /\ time = <<0, 0, 0>>
    /\ ret = Chars("1999-12-31T00:00:00")

=============================================================================
